---- MODULE Spec2Model ----
(***************************************************************************)
(* django-materialized-view: the view synchronization engine               *)
(* (MaterializedViewsProcessor), the MaterializedViewMigrations ledger and  *)
(* the PostgreSQL catalog it talks to, as a state machine.                  *)
(*                                                                         *)
(* Representation of text.  A Python string that is an identifier is the    *)
(* sequence of its "_"-separated segments: "my_app_b" is <<"my","app","b">>.*)
(* A definition text (SQL) is a sequence of tokens; a token is an           *)
(* identifier or a single piece of punctuation (a one-segment sequence).    *)
(***************************************************************************)
EXTENDS Integers, Sequences, FiniteSets, TLC

VARIABLES
    registry,                \* DBViewsRegistry: db_table -> view definition (text, args)
    catalog,                 \* the database: existing materialized view -> relations its rule references
    ledger,                  \* MaterializedViewMigrations rows, in primary-key order
    views_to_be_created,     \* processor.__views_to_be_created
    views_to_be_recreated,   \* processor.__views_to_be_recreated
    views_to_be_deleted,     \* processor.__views_to_be_deleted
    created_views,           \* processor.__created_views
    recreated_views,         \* processor.__recreated_views
    deleted_views,           \* processor.__deleted_views
    recreation_priority,     \* processor.__recreation_priority, in insertion order
    pc,                      \* position of the running call
    todo,                    \* what is left of the tuple / mapping the running loop iterates
    ev,                      \* the last step taken: operation, view, outcome
    run,                     \* what the current process_materialized_views() call has done so far
    budget,                  \* how many calls and deployments are left
    refresh_log,             \* the rows of MaterializedViewRefreshLog
    command,                 \* the migrate_with_views command: its class attribute and its handle() calls
    frames                   \* the calls of __prioritize_view that have not returned

vars == <<registry, catalog, ledger, views_to_be_created, views_to_be_recreated,
          views_to_be_deleted, created_views, recreated_views, deleted_views,
          recreation_priority, pc, todo, ev, run, budget, refresh_log, command, frames>>

\* what a synchronization run by itself leaves alone
otherVars == <<refresh_log, command, frames>>

procVars == <<views_to_be_created, views_to_be_recreated, views_to_be_deleted,
              created_views, recreated_views, deleted_views, recreation_priority>>

(***************************************************************************)
(* Bounds of the model.                                                    *)
(***************************************************************************)
\* calls in one behaviour: process_materialized_views() and direct save()
MaxCalls == 3
\* code deployments (changes of the registry) in one behaviour
MaxDeploys == 1
\* direct calls of add_view_to_be_recreated / add_view_to_be_deleted in one behaviour
MaxMarks == 2
\* direct calls of the other methods of the processor in one behaviour
MaxDirectCalls == 1
\* refresh() calls per behaviour
MaxRefreshes == 2
\* runs of the migrate_with_views command per behaviour
MaxCommands == 1
\* step-wise calls of __get_prioritized_views per behaviour
MaxWalks == 1
\* the interpreter's recursion limit (sys.getrecursionlimit(), 1000 by default),
\* scaled to the three views of the model: more nested __prioritize_view calls
\* than any walk over an acyclic database needs
RecursionLimit == 5

(***************************************************************************)
(* Generic helpers.                                                        *)
(***************************************************************************)
Range(s) == {s[i] : i \in DOMAIN s}

\* all orders in which a finite set can be iterated (Python set / dict iteration)
RECURSIVE Perms(_)
Perms(S) ==
    IF S = {} THEN {<<>>}
    ELSE UNION {{<<x>> \o p : p \in Perms(S \ {x})} : x \in S}

RECURSIVE SumOver(_, _)
SumOver(f, S) ==
    IF S = {} THEN 0
    ELSE LET x == CHOOSE y \in S : TRUE IN f[x] + SumOver(f, S \ {x})

(***************************************************************************)
(* The universe: tokens, the models of the project, their definitions.     *)
(***************************************************************************)
tSelect == <<"select">>
tSELECT == <<"SELECT">>
tSpace == <<" ">>
tNewline == <<"\n">>
tDquote == <<"\"">>
tSquote == <<"'">>
tOne == <<"1">>
tPercentS == <<"%s">>
tPercentPercent == <<"%%">>
tPercent == <<"%">>
tBang == <<"selec">>
tTab == <<"\t">>

\* the Django models that subclass MaterializedViewModel in some version of the project
ModelA == [app_label |-> <<"app">>, model_name |-> <<"a">>]
ModelB == [app_label |-> <<"my", "app">>, model_name |-> <<"b">>]
ModelC == [app_label |-> <<"app">>, model_name |-> <<"c", "d">>]
Models == {ModelA, ModelB, ModelC}

\* the table names of the three models, as the definitions reference them
ViewA == <<"app", "a">>
ViewB == <<"my", "app", "b">>
ViewC == <<"app", "c", "d">>

\* the definitions each model has had in some version of the project:
\* what view_definition() returns, (sql text, args)
DefsA ==
    { [text |-> <<tSelect, tOne>>, args |-> <<>>],
      [text |-> <<tSELECT, tSpace, tOne, tNewline>>, args |-> <<>>],
      [text |-> <<tSelect, tOne, tOne>>, args |-> <<>>],
      [text |-> <<tSelect, ViewB>>, args |-> <<>>],
      [text |-> <<tBang, tOne>>, args |-> <<>>] }
DefsB ==
    { [text |-> <<tSelect, ViewA>>, args |-> <<>>],
      [text |-> <<tSelect, ViewA, tPercentPercent>>, args |-> <<>>] }
DefsC ==
    { [text |-> <<tSelect, ViewA, ViewB>>, args |-> <<>>],
      [text |-> <<tSelect, tPercentS, ViewB>>, args |-> <<tOne>>] }

(***************************************************************************)
(* Names.                                                                  *)
(***************************************************************************)
\* processor.__get_view_name: "_".join((app_label, model_name))
get_view_name(app_label, model_name) == app_label \o model_name

\* processor.__separate_app_name_and_view_name: full_view_name.rsplit("_", 1)
separate_app_name_and_view_name(full_view_name) ==
    [app |-> SubSeq(full_view_name, 1, Len(full_view_name) - 1),
     view_name |-> <<full_view_name[Len(full_view_name)]>>]

\* Django's default db_table of a model, the key under which the metaclass registers it
db_table(m) == m.app_label \o m.model_name

ViewNames == {db_table(m) : m \in Models}

DefsOf(m) == IF m = ModelA THEN DefsA ELSE IF m = ModelB THEN DefsB ELSE DefsC

\* every content DBViewsRegistry can have: some of the models, each with one of its definitions
Registries ==
    { r \in UNION { [ {db_table(m) : m \in S} -> UNION {DefsOf(m) : m \in S} ] : S \in SUBSET Models } :
        \A m \in Models : db_table(m) \in DOMAIN r => r[db_table(m)] \in DefsOf(m) }

(***************************************************************************)
(* DefinitionHasher.                                                       *)
(***************************************************************************)
\* str.lower() on one segment
LowerSegment(s) == IF s = "SELECT" THEN "select" ELSE s

Lower(token) == [i \in DOMAIN token |-> LowerSegment(token[i])]

IsKept(token) == token \notin {tDquote, tSpace, tNewline, tSquote}

\* string.replace('"', "").replace(" ", "").replace("\n", "").replace("'", "").lower()
Normalize(text) ==
    LET kept == SelectSeq(text, IsKept)
    IN  [i \in DOMAIN kept |-> Lower(kept[i])]

\* hashlib.md5(...).hexdigest(): injective on the texts of the model
md5(text) == text

\* processor.__get_hash_from_string
get_hash_from_string(text) == md5(Normalize(text))

\* Python's text % args for a tuple args: each %s takes the next argument, %% becomes %
RECURSIVE Format(_, _)
Format(text, args) ==
    IF text = <<>> THEN <<>>
    ELSE IF Head(text) = tPercentS /\ args # <<>>
         THEN <<Head(args)>> \o Format(Tail(text), Tail(args))
    ELSE IF Head(text) = tPercentPercent
         THEN <<tPercent>> \o Format(Tail(text), args)
    ELSE <<Head(text)>> \o Format(Tail(text), args)

\* processor.__get_cleaned_view_definition_value: str.strip()
RECURSIVE StripLeft(_)
StripLeft(text) ==
    IF text # <<>> /\ Head(text) \in {tSpace, tNewline, tTab} THEN StripLeft(Tail(text)) ELSE text

RECURSIVE StripRight(_)
StripRight(text) ==
    IF text # <<>> /\ text[Len(text)] \in {tSpace, tNewline, tTab}
    THEN StripRight(SubSeq(text, 1, Len(text) - 1)) ELSE text

get_cleaned_view_definition_value(text) == StripRight(StripLeft(text))

\* processor.__get_actual_view_definition, for a registered view
get_actual_view_definition(reg, view_name) ==
    [text |-> get_cleaned_view_definition_value(reg[view_name].text),
     args |-> reg[view_name].args]

\* the hash mark_to_be_applied_new_views compares with the ledger
MarkHash(reg, view_name) ==
    LET d == get_actual_view_definition(reg, view_name)
    IN  get_hash_from_string(IF d.args # <<>> THEN Format(d.text, d.args) ELSE d.text)

\* the hash _create_view stores in the ledger
CreateHash(reg, view_name) ==
    LET d == get_actual_view_definition(reg, view_name)
    IN  get_hash_from_string(Format(d.text, d.args))

(***************************************************************************)
(* The database: materialized views and the catalog of their dependencies. *)
(***************************************************************************)
\* the relations a definition text selects from
Refs(text) == Range(text) \cap ViewNames

\* the parser rejects the text
SyntaxError(text) == tBang \in Range(text)

\* a database in which a view that references another relation never finds it
CreateOutcomeNeverResolving(cat, view_name, text) ==
    IF SyntaxError(text) THEN "syntax error"
    ELSE IF Refs(text) # {} THEN "does not exist"
    ELSE IF view_name \in DOMAIN cat THEN "already exists"
    ELSE "created"

\* what CREATE MATERIALIZED VIEW view_name AS text answers in the database cat
CreateOutcome(cat, view_name, text) ==
    IF SyntaxError(text) THEN "syntax error"
    ELSE IF ~(Refs(text) \subseteq DOMAIN cat) THEN "does not exist"
    ELSE IF view_name \in DOMAIN cat THEN "already exists"
    ELSE "created"

\* the database after a successful CREATE MATERIALIZED VIEW
CreateInCatalog(cat, view_name, text) ==
    [v \in DOMAIN cat \cup {view_name} |-> IF v = view_name THEN Refs(text) ELSE cat[v]]

\* an object of the database that depends on a view without being a view (a
\* function over the view's row type, say): the query of __get_related_views,
\* which follows the dependencies of rewrite rules (lines 263-264), does not
\* report it
OtherObject == <<"other", "object">>

\* the objects that depend on view_name directly, as DROP sees them
Dependents(cat, view_name) == {v \in DOMAIN cat \ {view_name} : view_name \in cat[v]}

\* processor.__get_related_views: the rows (materialized_view, ref_table) of pg_depend
get_related_views(cat) ==
    UNION { { [materialized_view |-> v, ref_table |-> r] : r \in cat[v] \ {v} } :
            v \in DOMAIN cat \ {OtherObject} }

\* a __get_ref_views that reads the rows the other way round: the views that
\* view_name references
get_ref_views_referenced(cat, view_name) ==
    { row.ref_table : row \in {r \in get_related_views(cat) : r.materialized_view = view_name} }

\* processor.__get_ref_views: the views that reference view_name directly
get_ref_views(cat, view_name) ==
    { row.materialized_view : row \in {r \in get_related_views(cat) : r.ref_table = view_name} }

\* view_name and everything DROP ... CASCADE removes with it
RECURSIVE CascadeClosure(_, _)
CascadeClosure(cat, views) ==
    LET more == views \cup UNION {Dependents(cat, v) : v \in views}
    IN  IF more = views THEN views ELSE CascadeClosure(cat, more)

\* what DROP MATERIALIZED VIEW IF EXISTS view_name [CASCADE] answers
DropOutcome(cat, view_name, cascade) ==
    IF view_name \in DOMAIN cat /\ ~cascade /\ Dependents(cat, view_name) # {}
    THEN "dependent objects"
    ELSE "dropped"

\* the database after a successful DROP MATERIALIZED VIEW IF EXISTS view_name [CASCADE]
DropInCatalog(cat, view_name, cascade) ==
    LET gone == IF view_name \notin DOMAIN cat THEN {}
                ELSE IF cascade THEN CascadeClosure(cat, {view_name})
                ELSE {view_name}
    IN  [v \in DOMAIN cat \ gone |-> cat[v]]

EmptyCatalog == [v \in {} |-> {}]

(***************************************************************************)
(* PriorityGraph.                                                          *)
(***************************************************************************)
\* a __prioritize_view without the recursion of lines 241-243
prioritize_view_one_level(cat, related_views) ==
    [count |-> IF related_views # {} THEN 1 ELSE 0, story |-> related_views]

\* processor.__prioritize_view, the recursion alone: how much it adds to the
\* counter of the root view and what it adds to dependencies_story
RECURSIVE prioritize_view(_, _)
prioritize_view(cat, related_views) ==
    LET sub == [r \in related_views |-> prioritize_view(cat, get_ref_views(cat, r))]
        counts == [r \in related_views |-> sub[r].count]
    IN  [count |-> (IF related_views # {} THEN 1 ELSE 0) + SumOver(counts, related_views),
         story |-> related_views \cup UNION {sub[r].story : r \in related_views}]

HasKey(priority, view) == \E i \in DOMAIN priority : priority[i].view = view

\* a counter that counts every call for the view
AddPriorityAndTheCall(priority, view, n) ==
    IF HasKey(priority, view)
    THEN [i \in DOMAIN priority |->
            IF priority[i].view = view
            THEN [view |-> view, priority |-> priority[i].priority + n + 1]
            ELSE priority[i]]
    ELSE Append(priority, [view |-> view, priority |-> n + 1])

\* self.__recreation_priority[view] += n on the defaultdict(int): a missing key is inserted last
AddPriority(priority, view, n) ==
    IF HasKey(priority, view)
    THEN [i \in DOMAIN priority |->
            IF priority[i].view = view
            THEN [view |-> view, priority |-> priority[i].priority + n]
            ELSE priority[i]]
    ELSE Append(priority, [view |-> view, priority |-> n])

\* a __get_prioritized_views that stops at the direct dependents
get_prioritized_views_one_level(cat, priority, view_name) ==
    [priority |-> AddPriority(priority, view_name,
                              IF get_ref_views(cat, view_name) # {} THEN 1 ELSE 0),
     story |-> get_ref_views(cat, view_name)]

\* processor.__get_prioritized_views: the counter afterwards and the returned story
get_prioritized_views(cat, priority, view_name) ==
    LET w == prioritize_view(cat, get_ref_views(cat, view_name))
    IN  [priority |-> AddPriority(priority, view_name, w.count), story |-> w.story]

\* a loop that walks the given views and appends nothing
RECURSIVE WalkGivenViews(_, _, _, _)
WalkGivenViews(cat, priority, recreation_list, i) ==
    IF i > Len(recreation_list)
    THEN {[priority |-> priority, recreation_list |-> recreation_list]}
    ELSE WalkGivenViews(cat, get_prioritized_views(cat, priority, recreation_list[i]).priority,
                        recreation_list, i + 1)

\* the loop of get_view_list_sorted_by_dependencies from position i of the growing
\* recreation_list: every (counter, recreation_list) it can leave, one per order
\* in which the dependencies found on the way are appended
RECURSIVE WalkRecreationList(_, _, _, _)
WalkRecreationList(cat, priority, recreation_list, i) ==
    IF i > Len(recreation_list)
    THEN {[priority |-> priority, recreation_list |-> recreation_list]}
    ELSE LET g == get_prioritized_views(cat, priority, recreation_list[i])
             found == g.story \ Range(recreation_list)
         IN  UNION { WalkRecreationList(cat, g.priority, recreation_list \o more, i + 1) :
                     more \in Perms(found) }

\* an insertion that ignores the priorities
InsertFirst(sorted, item) == <<item>> \o sorted

\* sorted(items, key=lambda item: item[1], reverse=True): stable, descending by priority
RECURSIVE InsertSorted(_, _)
InsertSorted(sorted, item) ==
    IF sorted = <<>> THEN <<item>>
    ELSE IF Head(sorted).priority >= item.priority
         THEN <<Head(sorted)>> \o InsertSorted(Tail(sorted), item)
    ELSE <<item>> \o sorted

\* the counter left in its insertion order, without the sorted() of line 125
SortByInsertionOrder(priority) == priority

RECURSIVE SortByPriority(_)
SortByPriority(priority) ==
    IF priority = <<>> THEN <<>>
    ELSE InsertSorted(SortByPriority(SubSeq(priority, 1, Len(priority) - 1)),
                      priority[Len(priority)])

\* processor.get_view_list_sorted_by_dependencies: every (counter afterwards, returned
\* mapping, walked list) the call can produce for the set views
get_view_list_sorted_by_dependencies(cat, priority, views) ==
    { [priority |-> w.priority, sorted_views |-> SortByPriority(w.priority),
       recreation_list |-> w.recreation_list] :
        w \in UNION { WalkRecreationList(cat, priority, seed, 1) : seed \in Perms(views) } }

Keys(mapping) == [i \in DOMAIN mapping |-> mapping[i].view]

(***************************************************************************)
(* MigrationLedger.                                                        *)
(***************************************************************************)
\* the rows a filter(app=..., view_name=..., deleted=False) selects
ActiveRows(rows, app, view_name) ==
    { i \in DOMAIN rows : rows[i].app = app /\ rows[i].view_name = view_name /\ ~rows[i].deleted }

\* Model.save alone: the row is written and no other row is touched
save_without_supersede(rows, pk, row) ==
    IF pk = 0 THEN Append(rows, row) ELSE [rows EXCEPT ![pk] = row]

\* a save() whose filter leaves out app and view_name
save_superseding_every_pair(rows, pk, row) ==
    LET superseded ==
            IF ~row.deleted
            THEN [i \in DOMAIN rows |-> [rows[i] EXCEPT !.deleted = TRUE]]
            ELSE rows
    IN  IF pk = 0 THEN Append(superseded, row) ELSE [superseded EXCEPT ![pk] = row]

\* a save() that overwrites the pair's active row instead of superseding it
save_over_the_active_row(rows, pk, row) ==
    IF pk = 0 /\ ActiveRows(rows, row.app, row.view_name) # {}
    THEN [i \in DOMAIN rows |->
            IF i \in ActiveRows(rows, row.app, row.view_name) THEN row ELSE rows[i]]
    ELSE IF pk = 0 THEN Append(rows, row) ELSE [rows EXCEPT ![pk] = row]

\* MaterializedViewMigrations.save of the instance row; pk = 0 for an instance
\* that is not in the table yet
save(rows, pk, row) ==
    LET superseded ==
            IF ~row.deleted
            THEN [i \in DOMAIN rows |->
                    IF i \in ActiveRows(rows, row.app, row.view_name)
                    THEN [rows[i] EXCEPT !.deleted = TRUE]
                    ELSE rows[i]]
            ELSE rows
    IN  IF pk = 0 THEN Append(superseded, row) ELSE [superseded EXCEPT ![pk] = row]

\* processor.__get_previous_view_definition_hash: the hashes objects.get can find
\* (none: DoesNotExist, the method returns None)
get_previous_view_definition_hash(rows, app_label, view_name) ==
    { rows[i].hash : i \in ActiveRows(rows, app_label, view_name) }

\* a delete_views without the update(deleted=True) of line 111
MarkNothingDeleted(rows, app, view_name) == rows

\* an update(deleted=True) without the filter of the view's name
MarkEveryViewDeleted(rows, app, view_name) ==
    [i \in DOMAIN rows |-> [rows[i] EXCEPT !.deleted = TRUE]]

\* delete_views: filter(app=app, view_name=model_view_name).update(deleted=True)
MarkDeleted(rows, app, view_name) ==
    [i \in DOMAIN rows |->
        IF rows[i].app = app /\ rows[i].view_name = view_name
        THEN [rows[i] EXCEPT !.deleted = TRUE]
        ELSE rows[i]]

(***************************************************************************)
(* ViewSynchronizer: the calls that execute DDL.                           *)
(***************************************************************************)
\* a _create_view that answers "already exists" as it answers "does not exist"
_create_view_leaving_it_pending(view_name, reg, cat, rows, to_create, to_recreate) ==
    LET same == [catalog |-> cat, ledger |-> rows, updated |-> 0,
                 views_to_be_created |-> to_create, views_to_be_recreated |-> to_recreate]
    IN  IF view_name \notin DOMAIN reg
        THEN [outcome |-> "KeyError", raised |-> TRUE, returns |-> FALSE] @@ same
        ELSE
        LET d == get_actual_view_definition(reg, view_name)
            o == CreateOutcome(cat, view_name, d.text)
            name == separate_app_name_and_view_name(view_name)
            migration == [app |-> name.app, view_name |-> name.view_name,
                          hash |-> get_hash_from_string(Format(d.text, d.args)),
                          deleted |-> FALSE]
        IN  IF o = "created"
            THEN [outcome |-> o, raised |-> FALSE, returns |-> TRUE,
                  catalog |-> CreateInCatalog(cat, view_name, d.text),
                  ledger |-> save(rows, 0, migration),
                  updated |-> Cardinality(ActiveRows(rows, name.app, name.view_name)),
                  views_to_be_created |-> to_create, views_to_be_recreated |-> to_recreate]
            ELSE IF o \in {"already exists", "does not exist"}
            THEN [outcome |-> o, raised |-> FALSE, returns |-> FALSE] @@ same
            ELSE [outcome |-> o, raised |-> TRUE, returns |-> FALSE] @@ same

\* processor._create_view: the outcome of the CREATE, whether the call raises,
\* what it returns, and the database, ledger and pending sets afterwards
_create_view(view_name, reg, cat, rows, to_create, to_recreate) ==
    LET same == [catalog |-> cat, ledger |-> rows, updated |-> 0,
                 views_to_be_created |-> to_create, views_to_be_recreated |-> to_recreate]
    IN  IF view_name \notin DOMAIN reg
        THEN [outcome |-> "KeyError", raised |-> TRUE, returns |-> FALSE] @@ same
        ELSE
        LET d == get_actual_view_definition(reg, view_name)
            o == CreateOutcome(cat, view_name, d.text)
            name == separate_app_name_and_view_name(view_name)
            migration == [app |-> name.app, view_name |-> name.view_name,
                          hash |-> get_hash_from_string(Format(d.text, d.args)),
                          deleted |-> FALSE]
        IN  IF o = "created"
            THEN [outcome |-> o, raised |-> FALSE, returns |-> TRUE,
                  catalog |-> CreateInCatalog(cat, view_name, d.text),
                  ledger |-> save(rows, 0, migration),
                  updated |-> Cardinality(ActiveRows(rows, name.app, name.view_name)),
                  views_to_be_created |-> to_create, views_to_be_recreated |-> to_recreate]
            ELSE IF o = "already exists"
            THEN [outcome |-> o, raised |-> FALSE, returns |-> FALSE,
                  catalog |-> cat, ledger |-> rows, updated |-> 0,
                  views_to_be_created |-> to_create \ {view_name},
                  views_to_be_recreated |-> to_recreate \cup {view_name}]
            ELSE IF o = "does not exist"
            THEN [outcome |-> o, raised |-> FALSE, returns |-> FALSE] @@ same
            ELSE [outcome |-> o, raised |-> TRUE, returns |-> FALSE] @@ same

\* a _delete_view that retries with CASCADE as soon as one dependent is pending deletion
_delete_view_when_some_dependent_is_pending(view_name, cascade, cat, priority, to_delete) ==
    IF DropOutcome(cat, view_name, cascade) = "dropped"
    THEN [outcome |-> "dropped", raised |-> FALSE,
          catalog |-> DropInCatalog(cat, view_name, cascade), priority |-> priority]
    ELSE CHOOSE result \in
            { IF g.story \cap to_delete # {}
              THEN [outcome |-> "dropped cascade", raised |-> FALSE,
                    catalog |-> DropInCatalog(cat, view_name, TRUE), priority |-> g.priority]
              ELSE [outcome |-> "dependent objects", raised |-> TRUE,
                    catalog |-> cat, priority |-> g.priority]
              : g \in {get_prioritized_views(cat, priority, view_name)} } : TRUE

\* processor._delete_view: the outcome, whether the call raises, and the database
\* and the priority counter afterwards
_delete_view(view_name, cascade, cat, priority, to_delete) ==
    IF DropOutcome(cat, view_name, cascade) = "dropped"
    THEN [outcome |-> "dropped", raised |-> FALSE,
          catalog |-> DropInCatalog(cat, view_name, cascade), priority |-> priority]
    ELSE \* g: what the one call of __get_prioritized_views returns
         CHOOSE result \in
            { IF g.story = {}
              THEN [outcome |-> "dependent objects", raised |-> TRUE,
                    catalog |-> cat, priority |-> g.priority]
              ELSE IF g.story \subseteq to_delete
              THEN [outcome |-> "dropped cascade", raised |-> FALSE,
                    catalog |-> DropInCatalog(cat, view_name, TRUE), priority |-> g.priority]
              ELSE [outcome |-> "dependent objects", raised |-> TRUE,
                    catalog |-> cat, priority |-> g.priority]
              : g \in {get_prioritized_views(cat, priority, view_name)} } : TRUE

(***************************************************************************)
(* The state machine.                                                      *)
(***************************************************************************)
NoView == <<>>

\* updated: how many ledger rows the step's update(deleted=True) matched
Event(op, view, outcome, updated) ==
    [op |-> op, view |-> view, outcome |-> outcome, updated |-> updated]

\* Command: the class attribute views_to_be_recreated (migrate_with_views.py 25)
\* is empty and no handle() call is running
NoCommand ==
    [at |-> "no", depth |-> 0, views_to_be_recreated |-> {}, blockers |-> {},
     migrated |-> FALSE, deleted |-> FALSE]

Phases == <<"mark_to_be_applied_new_views", "mark_to_be_deleted_old_views",
            "create_views", "recreate_views", "delete_views">>

Init ==
    /\ registry \in Registries
    /\ catalog = EmptyCatalog
    /\ ledger = <<>>
    /\ views_to_be_created = {}
    /\ views_to_be_recreated = {}
    /\ views_to_be_deleted = {}
    /\ created_views = {}
    /\ recreated_views = {}
    /\ deleted_views = {}
    /\ recreation_priority = <<>>
    /\ pc = "idle"
    /\ todo = <<>>
    /\ ev = Event("init", NoView, "", 0)
    /\ run = [second |-> FALSE, effects |-> {}, phases |-> <<>>, ended |-> "no",
              answers |-> {}, sweep |-> {}]
    /\ budget = [calls |-> MaxCalls, deploys |-> MaxDeploys]
    /\ refresh_log = <<>>
    /\ command = NoCommand
    /\ frames = <<>>

\* MaterializedViewsProcessor.__init__
FreshProcessor ==
    /\ views_to_be_created' = {}
    /\ views_to_be_recreated' = {}
    /\ views_to_be_deleted' = {}
    /\ created_views' = {}
    /\ recreated_views' = {}
    /\ deleted_views' = {}
    /\ recreation_priority' = <<>>

\* the registries one code change away: one model added, removed or redefined
OneChange(r, r2) ==
    Cardinality({v \in ViewNames :
        (v \in DOMAIN r) # (v \in DOMAIN r2)
        \/ (v \in DOMAIN r /\ v \in DOMAIN r2 /\ r[v] # r2[v])}) = 1

\* a new version of the project is deployed: the models register again in a new process
Deploy ==
    /\ pc = "idle"
    /\ budget.deploys > 0
    /\ \E r \in Registries : OneChange(registry, r) /\ registry' = r
    /\ FreshProcessor
    /\ ev' = Event("deploy", NoView, "", 0)
    /\ run' = [run EXCEPT !.ended = "no"]
    /\ budget' = [budget EXCEPT !.deploys = @ - 1]
    /\ UNCHANGED <<otherVars, catalog, ledger, pc, todo>>

\* the command runs again in a new process: a new MaterializedViewsProcessor
Restart ==
    /\ pc = "idle"
    /\ ev.op \in {"return", "raise"}
    /\ FreshProcessor
    /\ ev' = Event("restart", NoView, "", 0)
    /\ UNCHANGED <<otherVars, registry, catalog, ledger, pc, todo, run, budget>>

Did(effect) == run' = [run EXCEPT !.effects = @ \cup {effect}]

Enter(phase) == run' = [run EXCEPT !.phases = Append(@, phase)]

\* a view of the create phase was not created: skipped, "already exists" or
\* "does not exist"; sweep holds the outcomes of the current sweep, answers those
\* of the whole create phase
Answer(view, outcome) ==
    run' = [run EXCEPT !.answers = @ \cup {[view |-> view, outcome |-> outcome]},
                       !.sweep = @ \cup {outcome}]

\* an exception that is swallowed: the invocation goes on with its last phase
RaiseAndGoOn(view, outcome) ==
    /\ pc' = "delete_views"
    /\ todo' = <<>>
    /\ ev' = Event("raise", view, outcome, 0)
    /\ run' = [run EXCEPT !.ended = "raised", !.answers = {}, !.sweep = {}]

Raise(view, outcome) ==
    /\ pc' = "idle"
    /\ todo' = <<>>
    /\ ev' = Event("raise", view, outcome, 0)
    /\ run' = [run EXCEPT !.ended = "raised", !.answers = {}, !.sweep = {}]

\* process_materialized_views() is called
process_materialized_views ==
    /\ pc = "idle"
    /\ budget.calls > 0
    /\ pc' = "mark_to_be_applied_new_views"
    /\ ev' = Event("process_materialized_views", NoView, "", 0)
    /\ run' = [second |-> run.ended = "returned", effects |-> {}, phases |-> <<>>, ended |-> "no",
               answers |-> {}, sweep |-> {}]
    /\ budget' = [budget EXCEPT !.calls = @ - 1]
    /\ UNCHANGED <<otherVars, registry, catalog, ledger, procVars, todo>>

\* processor.__get_current_view_models
get_current_view_models(reg) == {m \in Models : db_table(m) \in DOMAIN reg}

\* the views mark_to_be_applied_new_views adds to the create set
NewViews(reg, rows) ==
    { get_view_name(m.app_label, m.model_name) : m \in
        { m \in get_current_view_models(reg) :
            get_previous_view_definition_hash(rows, m.app_label, m.model_name) = {} } }

\* a mark_to_be_applied_new_views that never compares the hashes
ChangedViewsWithAnyRecord(reg, rows) ==
    { get_view_name(m.app_label, m.model_name) : m \in
        { m \in get_current_view_models(reg) :
            get_previous_view_definition_hash(rows, m.app_label, m.model_name) # {} } }

\* the views mark_to_be_applied_new_views adds to the recreate set
ChangedViews(reg, rows) ==
    { get_view_name(m.app_label, m.model_name) : m \in
        { m \in get_current_view_models(reg) :
            LET previous == get_previous_view_definition_hash(rows, m.app_label, m.model_name)
            IN  /\ previous # {}
                /\ \E h \in previous :
                     h # MarkHash(reg, get_view_name(m.app_label, m.model_name)) } }

mark_to_be_applied_new_views ==
    /\ pc = "mark_to_be_applied_new_views"
    /\ views_to_be_created' = views_to_be_created \cup NewViews(registry, ledger)
    /\ views_to_be_recreated' = views_to_be_recreated \cup ChangedViews(registry, ledger)
    /\ pc' = "mark_to_be_deleted_old_views"
    /\ ev' = Event("mark_to_be_applied_new_views", NoView, "", 0)
    /\ Enter("mark_to_be_applied_new_views")
    /\ UNCHANGED <<otherVars, registry, catalog, ledger, views_to_be_deleted, created_views,
                   recreated_views, deleted_views, recreation_priority, todo, budget>>

\* a mark_to_be_deleted_old_views whose filter leaves out deleted=False
OldViewsOfAnyRecord(reg, rows) ==
    { get_view_name(rows[i].app, rows[i].view_name) : i \in
        { i \in DOMAIN rows : get_view_name(rows[i].app, rows[i].view_name) \notin DOMAIN reg } }

\* the views mark_to_be_deleted_old_views adds to the delete set
OldViews(reg, rows) ==
    { get_view_name(rows[i].app, rows[i].view_name) : i \in
        { i \in DOMAIN rows :
            ~rows[i].deleted /\ get_view_name(rows[i].app, rows[i].view_name) \notin DOMAIN reg } }

mark_to_be_deleted_old_views ==
    /\ pc = "mark_to_be_deleted_old_views"
    /\ views_to_be_deleted' = views_to_be_deleted \cup OldViews(registry, ledger)
    /\ pc' = "create_views"
    /\ ev' = Event("mark_to_be_deleted_old_views", NoView, "", 0)
    /\ Enter("mark_to_be_deleted_old_views")
    /\ UNCHANGED <<otherVars, registry, catalog, ledger, views_to_be_created, views_to_be_recreated,
                   created_views, recreated_views, deleted_views, recreation_priority,
                   todo, budget>>

\* create_views is entered, by process_materialized_views or by itself (line 93):
\* tuple(self.__views_to_be_created) fixes what this sweep iterates, in some order
create_views ==
    /\ pc = "create_views"
    /\ todo' \in Perms(views_to_be_created)
    /\ pc' = "create_views loop"
    /\ ev' = Event("create_views", NoView, "sweep", 0)
    /\ run' = [run EXCEPT
                  !.phases = IF @ # <<>> /\ @[Len(@)] = "create_views"
                             THEN @ ELSE Append(@, "create_views"),
                  !.sweep = {}]
    /\ UNCHANGED <<otherVars, registry, catalog, ledger, procVars, budget>>

\* a create_views without the check of lines 77-80: _create_view is called for
\* a view of the created set as well
create_views_without_skip ==
    /\ pc = "create_views loop"
    /\ todo # <<>>
    /\ Head(todo) \in created_views
    /\ \E view_name \in {Head(todo)} :
       \E c \in {_create_view(view_name, registry, catalog, ledger,
                               views_to_be_created, views_to_be_recreated)} :
           /\ ~c.raised
           /\ catalog' = c.catalog
           /\ ledger' = c.ledger
           /\ views_to_be_recreated' = c.views_to_be_recreated
           /\ IF c.returns
              THEN /\ created_views' = created_views \cup {view_name}
                   /\ views_to_be_created' = c.views_to_be_created \ {view_name}
                   /\ run' = [run EXCEPT !.effects = @ \cup {"create"},
                                          !.sweep = @ \cup {c.outcome}]
              ELSE /\ created_views' = created_views
                   /\ views_to_be_created' = c.views_to_be_created
                   /\ Answer(view_name, c.outcome)
           /\ ev' = Event("create_views", view_name, c.outcome, c.updated)
    /\ todo' = Tail(todo)
    /\ UNCHANGED <<otherVars, registry, views_to_be_deleted, recreated_views, deleted_views,
                   recreation_priority, pc, budget>>

\* one iteration of the loop of create_views: the view is in the created set already
create_views_skip ==
    /\ pc = "create_views loop"
    /\ todo # <<>>
    /\ Head(todo) \in created_views
    /\ views_to_be_created' = views_to_be_created \ {Head(todo)}
    /\ todo' = Tail(todo)
    /\ ev' = Event("create_views", Head(todo), "skipped", 0)
    /\ Answer(Head(todo), "skipped")
    /\ UNCHANGED <<otherVars, registry, catalog, ledger, views_to_be_recreated, views_to_be_deleted,
                   created_views, recreated_views, deleted_views, recreation_priority,
                   pc, budget>>

\* one iteration of the loop of create_views: _create_view is called and returns
create_views_step ==
    /\ pc = "create_views loop"
    /\ todo # <<>>
    /\ Head(todo) \notin created_views
    /\ \E view_name \in {Head(todo)} :
       \E c \in {_create_view(view_name, registry, catalog, ledger,
                               views_to_be_created, views_to_be_recreated)} :
           /\ ~c.raised
           /\ catalog' = c.catalog
           /\ ledger' = c.ledger
           /\ views_to_be_recreated' = c.views_to_be_recreated
           /\ IF c.returns
              THEN /\ created_views' = created_views \cup {view_name}
                   /\ views_to_be_created' = c.views_to_be_created \ {view_name}
                   /\ run' = [run EXCEPT !.effects = @ \cup {"create"},
                                          !.sweep = @ \cup {c.outcome}]
              ELSE /\ created_views' = created_views
                   /\ views_to_be_created' = c.views_to_be_created
                   /\ Answer(view_name, c.outcome)
           /\ ev' = Event("create_views", view_name, c.outcome, c.updated)
    /\ todo' = Tail(todo)
    /\ UNCHANGED <<otherVars, registry, views_to_be_deleted, recreated_views, deleted_views,
                   recreation_priority, pc, budget>>

\* a create_views that takes the failing view off the pending-creation set
\* before the error leaves it
create_views_raise_discarding_the_view ==
    /\ pc = "create_views loop"
    /\ todo # <<>>
    /\ Head(todo) \notin created_views
    /\ \E c \in {_create_view(Head(todo), registry, catalog, ledger,
                               views_to_be_created, views_to_be_recreated)} :
           /\ c.raised
           /\ Raise(Head(todo), c.outcome)
    /\ views_to_be_created' = views_to_be_created \ {Head(todo)}
    /\ UNCHANGED <<otherVars, registry, catalog, ledger, views_to_be_recreated, views_to_be_deleted,
                   created_views, recreated_views, deleted_views, recreation_priority, budget>>

\* one iteration of the loop of create_views: _create_view raises
create_views_raise ==
    /\ pc = "create_views loop"
    /\ todo # <<>>
    /\ Head(todo) \notin created_views
    /\ \E c \in {_create_view(Head(todo), registry, catalog, ledger,
                               views_to_be_created, views_to_be_recreated)} :
           /\ c.raised
           /\ Raise(Head(todo), c.outcome)
    /\ UNCHANGED <<otherVars, registry, catalog, ledger, procVars, budget>>

\* a create_views without line 91-93: one sweep and no more
create_views_end_after_one_sweep ==
    /\ pc = "create_views loop"
    /\ todo = <<>>
    /\ pc' = "recreate_views"
    /\ ev' = Event("create_views", NoView, "done", 0)
    /\ run' = [run EXCEPT !.answers = {}, !.sweep = {}]
    /\ UNCHANGED <<otherVars, registry, catalog, ledger, procVars, todo, budget>>

\* the loop of create_views is over: the call re-invokes itself or returns
create_views_end ==
    /\ pc = "create_views loop"
    /\ todo = <<>>
    /\ pc' = IF views_to_be_created # {} THEN "create_views" ELSE "recreate_views"
    /\ ev' = Event("create_views", NoView, IF views_to_be_created # {} THEN "again" ELSE "done", 0)
    /\ run' = IF views_to_be_created # {} THEN run
              ELSE [run EXCEPT !.answers = {}, !.sweep = {}]
    /\ UNCHANGED <<otherVars, registry, catalog, ledger, procVars, todo, budget>>

\* a _recreate_view that takes a failed drop for a recreation
_recreate_view_counting_a_failed_drop(view_name, delete_cascade, reg, cat, rows, priority, to_create, to_recreate, to_delete, recreated) ==
    CHOOSE result \in
        { IF d.raised
          THEN [outcome |-> d.outcome, raised |-> FALSE, returns |-> TRUE,
                catalog |-> d.catalog, ledger |-> rows, updated |-> 0, priority |-> d.priority,
                views_to_be_created |-> to_create,
                views_to_be_recreated |-> to_recreate \ {view_name},
                recreated_views |-> recreated \cup {view_name}]
          ELSE CHOOSE created \in
                { [outcome |-> c.outcome, raised |-> c.raised, returns |-> c.returns,
                   catalog |-> c.catalog, ledger |-> c.ledger, updated |-> c.updated,
                   priority |-> d.priority,
                   views_to_be_created |-> c.views_to_be_created,
                   views_to_be_recreated |->
                       IF c.returns THEN c.views_to_be_recreated \ {view_name}
                       ELSE c.views_to_be_recreated,
                   recreated_views |->
                       IF c.returns THEN recreated \cup {view_name} ELSE recreated]
                   : c \in {_create_view(view_name, reg, d.catalog, rows,
                                        to_create, to_recreate)} } : TRUE
          : d \in {_delete_view(view_name, delete_cascade, cat, priority, to_delete)} } : TRUE

\* processor._recreate_view
_recreate_view(view_name, delete_cascade, reg, cat, rows, priority, to_create, to_recreate, to_delete, recreated) ==
    \* d: what the one call of _delete_view answers; c: what the call of
    \* _create_view that follows it answers
    CHOOSE result \in
        { IF d.raised
          THEN [outcome |-> d.outcome, raised |-> TRUE, returns |-> FALSE,
                catalog |-> d.catalog, ledger |-> rows, updated |-> 0, priority |-> d.priority,
                views_to_be_created |-> to_create, views_to_be_recreated |-> to_recreate,
                recreated_views |-> recreated]
          ELSE CHOOSE created \in
                { [outcome |-> c.outcome, raised |-> c.raised, returns |-> c.returns,
                   catalog |-> c.catalog, ledger |-> c.ledger, updated |-> c.updated,
                   priority |-> d.priority,
                   views_to_be_created |-> c.views_to_be_created,
                   views_to_be_recreated |->
                       IF c.returns THEN c.views_to_be_recreated \ {view_name}
                       ELSE c.views_to_be_recreated,
                   recreated_views |->
                       IF c.returns THEN recreated \cup {view_name} ELSE recreated]
                   : c \in {_create_view(view_name, reg, d.catalog, rows,
                                        to_create, to_recreate)} } : TRUE
          : d \in {_delete_view(view_name, delete_cascade, cat, priority, to_delete)} } : TRUE

\* recreate_views up to its loop: the sorted mapping replaces the recreate set
recreate_views ==
    /\ pc = "recreate_views"
    /\ \E g \in get_view_list_sorted_by_dependencies(catalog, recreation_priority,
                                                     views_to_be_recreated) :
          /\ recreation_priority' = g.priority
          /\ views_to_be_recreated' = Range(Keys(g.sorted_views))
          /\ todo' = Keys(g.sorted_views)
    /\ pc' = "recreate_views loop"
    /\ ev' = Event("recreate_views", NoView, "sorted", 0)
    /\ Enter("recreate_views")
    /\ UNCHANGED <<otherVars, registry, catalog, ledger, views_to_be_created, views_to_be_deleted,
                   created_views, recreated_views, deleted_views, budget>>

\* one iteration of the loop of recreate_views: _recreate_view returns
recreate_views_step ==
    /\ pc = "recreate_views loop"
    /\ todo # <<>>
    /\ \E r \in {_recreate_view(Head(todo), TRUE, registry, catalog, ledger,
                                 recreation_priority, views_to_be_created,
                                 views_to_be_recreated, views_to_be_deleted, recreated_views)} :
           /\ ~r.raised
           /\ catalog' = r.catalog
           /\ ledger' = r.ledger
           /\ recreation_priority' = r.priority
           /\ views_to_be_created' = r.views_to_be_created
           /\ views_to_be_recreated' = r.views_to_be_recreated
           /\ recreated_views' = r.recreated_views
           /\ ev' = Event("recreate_views", Head(todo), r.outcome, r.updated)
           /\ IF r.returns THEN Did("recreate") ELSE UNCHANGED run
    /\ todo' = Tail(todo)
    /\ UNCHANGED <<otherVars, registry, views_to_be_deleted, created_views, deleted_views, pc, budget>>

\* one iteration of the loop of recreate_views: _recreate_view raises
recreate_views_raise ==
    /\ pc = "recreate_views loop"
    /\ todo # <<>>
    /\ \E r \in {_recreate_view(Head(todo), TRUE, registry, catalog, ledger,
                                 recreation_priority, views_to_be_created,
                                 views_to_be_recreated, views_to_be_deleted, recreated_views)} :
           /\ r.raised
           /\ catalog' = r.catalog
           /\ recreation_priority' = r.priority
           /\ Raise(Head(todo), r.outcome)
    /\ UNCHANGED <<otherVars, registry, ledger, views_to_be_created, views_to_be_recreated,
                   views_to_be_deleted, created_views, recreated_views, deleted_views, budget>>

\* the loop of recreate_views is over
recreate_views_end ==
    /\ pc = "recreate_views loop"
    /\ todo = <<>>
    /\ pc' = "delete_views"
    /\ ev' = Event("recreate_views", NoView, "done", 0)
    /\ UNCHANGED <<otherVars, registry, catalog, ledger, procVars, todo, run, budget>>

\* delete_views up to its loop: tuple(self.__views_to_be_deleted), in some order
delete_views ==
    /\ pc = "delete_views"
    /\ todo' \in Perms(views_to_be_deleted)
    /\ pc' = "delete_views loop"
    /\ ev' = Event("delete_views", NoView, "start", 0)
    /\ Enter("delete_views")
    /\ UNCHANGED <<otherVars, registry, catalog, ledger, procVars, budget>>

\* one iteration of the loop of delete_views: _delete_view returns True
delete_views_step ==
    /\ pc = "delete_views loop"
    /\ todo # <<>>
    /\ \E view_name \in {Head(todo)} :
       \E d \in {_delete_view(view_name, FALSE, catalog, recreation_priority, views_to_be_deleted)} :
       \E name \in {separate_app_name_and_view_name(view_name)} :
           /\ ~d.raised
           /\ catalog' = d.catalog
           /\ recreation_priority' = d.priority
           /\ ledger' = MarkDeleted(ledger, name.app, name.view_name)
           /\ deleted_views' = deleted_views \cup {view_name}
           /\ views_to_be_deleted' = views_to_be_deleted \ {view_name}
           /\ ev' = Event("delete_views", view_name, d.outcome,
                            Cardinality({i \in DOMAIN ledger :
                                ledger[i].app = name.app /\ ledger[i].view_name = name.view_name}))
    /\ todo' = Tail(todo)
    /\ Did("delete")
    /\ UNCHANGED <<otherVars, registry, views_to_be_created, views_to_be_recreated, created_views,
                   recreated_views, pc, budget>>

\* one iteration of the loop of delete_views: _delete_view raises
delete_views_raise ==
    /\ pc = "delete_views loop"
    /\ todo # <<>>
    /\ \E d \in {_delete_view(Head(todo), FALSE, catalog, recreation_priority, views_to_be_deleted)} :
           /\ d.raised
           /\ recreation_priority' = d.priority
           /\ Raise(Head(todo), d.outcome)
    /\ UNCHANGED <<otherVars, registry, catalog, ledger, views_to_be_created, views_to_be_recreated,
                   views_to_be_deleted, created_views, recreated_views, deleted_views, budget>>

\* the loop of delete_views is over: process_materialized_views returns
delete_views_end ==
    /\ pc = "delete_views loop"
    /\ todo = <<>>
    /\ pc' = "idle"
    /\ ev' = Event("return", NoView, "", 0)
    /\ run' = [run EXCEPT !.ended = "returned"]
    /\ UNCHANGED <<otherVars, registry, catalog, ledger, procVars, todo, budget>>

\* the (app, view_name) pairs a direct save() writes: those _create_view writes
LedgerNames == { separate_app_name_and_view_name(v) : v \in ViewNames }

\* the hashes a direct save() stores: one that a definition of the model has, one that none has
LedgerHashes ==
    { get_hash_from_string(<<tSelect, tOne>>), get_hash_from_string(<<tSelect>>) }

\* MaterializedViewMigrations.save() called directly on a new instance (pk = 0) or
\* on a row of the table whose fields were set to any values
Save ==
    /\ pc = "idle"
    /\ budget.calls > 0
    /\ \E pk \in 0 .. Len(ledger), name \in LedgerNames, hash \in LedgerHashes, deleted \in BOOLEAN :
          /\ ledger' = save(ledger, pk, [app |-> name.app, view_name |-> name.view_name,
                                        hash |-> hash, deleted |-> deleted])
          /\ ev' = Event("save", get_view_name(name.app, name.view_name),
                         IF pk = 0 THEN "insert" ELSE "update",
                         IF deleted THEN 0
                         ELSE Cardinality(ActiveRows(ledger, name.app, name.view_name)))
    /\ run' = [run EXCEPT !.ended = "no"]
    /\ budget' = [budget EXCEPT !.calls = @ - 1]
    /\ UNCHANGED <<otherVars, registry, catalog, procVars, pc, todo>>

Next ==
    \/ Deploy
    \/ Restart
    \/ process_materialized_views
    \/ mark_to_be_applied_new_views
    \/ mark_to_be_deleted_old_views
    \/ create_views
    \/ create_views_skip
    \/ create_views_step
    \/ create_views_raise
    \/ create_views_end
    \/ recreate_views
    \/ recreate_views_step
    \/ recreate_views_raise
    \/ recreate_views_end
    \/ delete_views
    \/ delete_views_step
    \/ delete_views_raise
    \/ delete_views_end

Spec == Init /\ [][Next]_vars

\* one step of the body of create_views (processor.py 72-93)
CreateStep ==
    \/ create_views
    \/ create_views_skip
    \/ create_views_step
    \/ create_views_raise
    \/ create_views_end

\* create_views is a synchronous loop: once the call has started it keeps
\* running until it returns or raises
FairSpec == Init /\ [][Next]_vars /\ WF_vars(CreateStep)

\* the synchronizer with direct writes of the ledger between its runs, on the
\* registries of LedgerRegistries: none of their definitions raises
LedgerNext ==
    \/ Save
    \/ process_materialized_views
    \/ mark_to_be_applied_new_views
    \/ mark_to_be_deleted_old_views
    \/ create_views
    \/ create_views_skip
    \/ create_views_step
    \/ create_views_end
    \/ recreate_views
    \/ recreate_views_step
    \/ recreate_views_end
    \/ delete_views
    \/ delete_views_step
    \/ delete_views_end

\* one version of the project: every model has its first definition
LedgerRegistries ==
    { r \in Registries :
        \A v \in DOMAIN r :
            r[v] \in { [text |-> <<tSelect, tOne>>, args |-> <<>>],
                       [text |-> <<tSelect, ViewA>>, args |-> <<>>],
                       [text |-> <<tSelect, ViewA, ViewB>>, args |-> <<>>] } }

LedgerInit == Init /\ registry \in LedgerRegistries

LedgerSpec == LedgerInit /\ [][LedgerNext]_vars

(***************************************************************************)
(* MigrationLedger: the properties of the ledger.                          *)
(***************************************************************************)
(***************************************************************************)
(* The methods of the processor called directly, as Command.handle         *)
(* (migrate_with_views.py 39-44) and the tests call them, on any database  *)
(* the project can have left behind.                                       *)
(***************************************************************************)
ViewOrder == <<ViewA, ViewB, ViewC>>

\* the views before view in ViewOrder
Earlier(view) ==
    {ViewOrder[i] : i \in {j \in DOMAIN ViewOrder :
                              \E k \in DOMAIN ViewOrder : ViewOrder[k] = view /\ j < k}}

\* the databases with some of the views, each referencing some of those created
\* before it, and possibly one object that depends on one of them and that
\* __get_related_views does not report
ViewCatalogs ==
    UNION { { cat \in [S -> SUBSET ViewNames] : \A v \in S : cat[v] \subseteq Earlier(v) \cap S } :
            S \in SUBSET ViewNames }

Catalogs ==
    ViewCatalogs \cup
    UNION { { cat @@ (OtherObject :> {v}) : v \in DOMAIN cat } : cat \in ViewCatalogs }

\* the ledger _create_view has written for the views of the database cat
LedgerOf(reg, cat) ==
    LET views == SelectSeq(ViewOrder, LAMBDA v : v \in DOMAIN cat)
    IN  [i \in DOMAIN views |->
            [app |-> separate_app_name_and_view_name(views[i]).app,
             view_name |-> separate_app_name_and_view_name(views[i]).view_name,
             hash |-> IF views[i] \in DOMAIN reg THEN CreateHash(reg, views[i])
                      ELSE get_hash_from_string(<<tSelect, tOne>>),
             deleted |-> FALSE]]

\* the project's models with their first definitions, and the same with a
\* definition of app_a that the database rejects
CallRegistries ==
    { r \in Registries :
        /\ DOMAIN r = ViewNames
        /\ r[ViewA] \in { [text |-> <<tSelect, tOne>>, args |-> <<>>],
                          [text |-> <<tBang, tOne>>, args |-> <<>>] }
        /\ r[ViewB] = [text |-> <<tSelect, ViewA>>, args |-> <<>>]
        /\ r[ViewC] = [text |-> <<tSelect, ViewA, ViewB>>, args |-> <<>>] }

\* the texts handed to __get_hash_from_string
HashTexts ==
    { <<tSelect, tOne>>,
      <<tSelect, tSpace, tOne>>,
      <<tSELECT, tNewline, tOne>>,
      <<tSelect, tTab, tOne>>,
      <<tSelect, tDquote, tOne, tDquote>>,
      <<tSelect, tSquote, tOne, tSquote, tSpace>>,
      <<tSelect, tOne, tOne>> }

\* the priority counter of a new processor, and one that earlier calls have left
Counters == {<<>>, <<[view |-> ViewB, priority |-> 1]>>}

CallInit ==
    /\ registry \in CallRegistries
    /\ catalog \in Catalogs
    /\ ledger = LedgerOf(registry, catalog)
    /\ views_to_be_created = {}
    /\ views_to_be_recreated = {}
    /\ views_to_be_deleted = {}
    /\ created_views = {}
    /\ recreated_views = {}
    /\ deleted_views = {}
    /\ recreation_priority \in Counters
    /\ pc = "idle"
    /\ todo = <<>>
    /\ ev = Event("init", NoView, "", 0)
    /\ run = [second |-> FALSE, effects |-> {}, phases |-> <<>>, ended |-> "no",
              answers |-> {}, sweep |-> {}, marked |-> {}, walked |-> <<>>]
    /\ budget = [calls |-> MaxDirectCalls, deploys |-> 0, marks |-> MaxMarks]
    /\ refresh_log = <<>>
    /\ command = NoCommand
    /\ frames = <<>>

\* processor.add_view_to_be_recreated
add_view_to_be_recreated ==
    /\ pc = "idle"
    /\ budget.marks > 0
    /\ \E view \in ViewNames :
          /\ views_to_be_recreated' = views_to_be_recreated \cup {view}
          /\ ev' = Event("add_view_to_be_recreated", view, "", 0)
    /\ budget' = [budget EXCEPT !.marks = @ - 1]
    /\ UNCHANGED <<otherVars, registry, catalog, ledger, views_to_be_created, views_to_be_deleted,
                   created_views, recreated_views, deleted_views, recreation_priority,
                   pc, todo, run>>

\* processor.add_view_to_be_deleted
add_view_to_be_deleted ==
    /\ pc = "idle"
    /\ budget.marks > 0
    /\ \E view \in ViewNames :
          /\ views_to_be_deleted' = views_to_be_deleted \cup {view}
          /\ ev' = Event("add_view_to_be_deleted", view, "", 0)
    /\ budget' = [budget EXCEPT !.marks = @ - 1]
    /\ UNCHANGED <<otherVars, registry, catalog, ledger, views_to_be_created, views_to_be_recreated,
                   created_views, recreated_views, deleted_views, recreation_priority,
                   pc, todo, run>>

\* a direct call starts: it takes one of the calls of the behaviour
Called == budget.calls > 0 /\ budget' = [budget EXCEPT !.calls = @ - 1]

\* __get_hash_from_string(text) is called; the event holds the text and the hash
call_get_hash_from_string ==
    /\ pc = "idle"
    /\ Called
    /\ \E text \in HashTexts :
          ev' = Event("get_hash_from_string", text, get_hash_from_string(text), 0)
    /\ UNCHANGED <<otherVars, registry, catalog, ledger, procVars, pc, todo, run>>

\* __get_prioritized_views(view_name) is called; the event holds the returned set
call_get_prioritized_views ==
    /\ pc = "idle"
    /\ Called
    /\ \E view_name \in ViewNames :
       \E g \in {get_prioritized_views(catalog, recreation_priority, view_name)} :
          /\ recreation_priority' = g.priority
          /\ ev' = Event("get_prioritized_views", view_name, g.story, 0)
    /\ UNCHANGED <<otherVars, registry, catalog, ledger, views_to_be_created, views_to_be_recreated,
                   views_to_be_deleted, created_views, recreated_views, deleted_views,
                   pc, todo, run>>

\* get_view_list_sorted_by_dependencies(views) is called; the event holds the
\* returned mapping
call_get_view_list_sorted_by_dependencies ==
    /\ pc = "idle"
    /\ Called
    /\ \E views \in SUBSET ViewNames :
       \E g \in get_view_list_sorted_by_dependencies(catalog, recreation_priority, views) :
          /\ recreation_priority' = g.priority
          /\ ev' = Event("get_view_list_sorted_by_dependencies", views, g.sorted_views, 0)
          /\ run' = [run EXCEPT !.walked = g.recreation_list]
    /\ UNCHANGED <<otherVars, registry, catalog, ledger, views_to_be_created, views_to_be_recreated,
                   views_to_be_deleted, created_views, recreated_views, deleted_views,
                   pc, todo>>

\* how a direct call ended: it returned, or the exception left it
Ended(raised) == run' = [run EXCEPT !.ended = IF raised THEN "raised" ELSE "returned"]

\* _delete_view(view_name, cascade) is called; the event holds what the call
\* met: "dropped", "dropped cascade" after the retry with CASCADE, or the error
\* of the DROP that it raises again
call__delete_view ==
    /\ pc = "idle"
    /\ Called
    /\ \E view_name \in ViewNames, cascade \in BOOLEAN :
       \E d \in {_delete_view(view_name, cascade, catalog, recreation_priority,
                              views_to_be_deleted)} :
          /\ catalog' = d.catalog
          /\ recreation_priority' = d.priority
          /\ ev' = Event(IF cascade THEN "_delete_view CASCADE" ELSE "_delete_view",
                          view_name, d.outcome, 0)
          /\ Ended(d.raised)
    /\ UNCHANGED <<otherVars, registry, ledger, views_to_be_created, views_to_be_recreated,
                   views_to_be_deleted, created_views, recreated_views, deleted_views,
                   pc, todo>>

\* _recreate_view(view_name, delete_cascade) is called
call__recreate_view ==
    /\ pc = "idle"
    /\ Called
    /\ \E view_name \in ViewNames, delete_cascade \in BOOLEAN :
       \E r \in {_recreate_view(view_name, delete_cascade, registry, catalog, ledger,
                                recreation_priority, views_to_be_created,
                                views_to_be_recreated, views_to_be_deleted, recreated_views)} :
          /\ catalog' = r.catalog
          /\ ledger' = r.ledger
          /\ recreation_priority' = r.priority
          /\ views_to_be_created' = r.views_to_be_created
          /\ views_to_be_recreated' = r.views_to_be_recreated
          /\ recreated_views' = r.recreated_views
          /\ ev' = Event(IF delete_cascade THEN "_recreate_view CASCADE" ELSE "_recreate_view",
                          view_name, r.outcome, r.updated)
          /\ Ended(r.raised)
    /\ UNCHANGED <<otherVars, registry, views_to_be_deleted, created_views, deleted_views, pc, todo>>

\* delete_views() is called; marked keeps the pending-deletion set of that moment
call_delete_views ==
    /\ pc = "idle"
    /\ Called
    /\ pc' = "delete_views"
    /\ ev' = Event("call delete_views", NoView, "", 0)
    /\ run' = [run EXCEPT !.phases = <<>>, !.ended = "no", !.effects = {},
                          !.marked = views_to_be_deleted]
    /\ UNCHANGED <<otherVars, registry, catalog, ledger, procVars, todo>>

CallNext ==
    \/ add_view_to_be_recreated
    \/ add_view_to_be_deleted
    \/ call_get_hash_from_string
    \/ call_get_prioritized_views
    \/ call_get_view_list_sorted_by_dependencies
    \/ call__delete_view
    \/ call__recreate_view
    \/ call_delete_views
    \/ delete_views
    \/ delete_views_step
    \/ delete_views_raise
    \/ delete_views_end

CallSpec == CallInit /\ [][CallNext]_vars

SamePair(r1, r2) == r1.app = r2.app /\ r1.view_name = r2.view_name

\* C1: at any time at most one ledger record per (app, view_name) pair has
\* deleted = False, whatever sequence of save() calls and synchronizer runs
\* produced the table.
C1_AtMostOneActiveRecord ==
    \A i, j \in DOMAIN ledger :
        (SamePair(ledger[i], ledger[j]) /\ ~ledger[i].deleted /\ ~ledger[j].deleted) => i = j

\* a save() of an active record has just superseded the active record of its pair
C1_Witness ==
    /\ ev.op = "save"
    /\ ev.updated = 1
    /\ \E i, j \in DOMAIN ledger :
          /\ i # j
          /\ SamePair(ledger[i], ledger[j])
          /\ ledger[i].deleted
          /\ ~ledger[j].deleted

\* the step appends a record with deleted = False to the ledger
SavesNewActiveRecord ==
    /\ Len(ledger') = Len(ledger) + 1
    /\ ~ledger'[Len(ledger')].deleted

\* C2: saving a new record with deleted = False marks exactly the previously
\* active record of the same pair as deleted: the records of other pairs and the
\* records that were superseded before keep all their fields, and the old
\* records change in nothing but the deleted flag.
C2_SaveSupersedesExactlyThePair ==
    [][SavesNewActiveRecord =>
        LET new == ledger'[Len(ledger')]
        IN  \A i \in DOMAIN ledger :
               /\ ledger'[i].app = ledger[i].app
               /\ ledger'[i].view_name = ledger[i].view_name
               /\ ledger'[i].hash = ledger[i].hash
               /\ ledger'[i].deleted =
                     (ledger[i].deleted \/ (SamePair(ledger[i], new) /\ ~ledger[i].deleted))
               /\ (ledger'[i] # ledger[i]) =>
                     (i \in ActiveRows(ledger, new.app, new.view_name))]_vars

\* a new active record was just saved over an active record of its pair, while the
\* table holds an active record of another pair and a record of the same pair
\* that was superseded earlier
C2_Witness ==
    /\ ev.op \in {"save", "create_views", "recreate_views"}
    /\ ev.outcome \in {"insert", "created"}
    /\ ev.updated = 1
    /\ Len(ledger) >= 4
    /\ LET new == ledger[Len(ledger)]
       IN  /\ ~new.deleted
           /\ Cardinality({i \in DOMAIN ledger : SamePair(ledger[i], new) /\ ledger[i].deleted}) >= 2
           /\ \E j \in DOMAIN ledger : ~SamePair(ledger[j], new) /\ ~ledger[j].deleted

(***************************************************************************)
(* ViewSynchronizer: the properties of process_materialized_views.         *)
(***************************************************************************)
\* C3: a process_materialized_views() call that follows a returned call, with no
\* change of the registry, the definitions or the database in between, performs
\* zero creates, zero recreates and zero deletes.
C3_SecondRunDoesNothing ==
    run.second => run.effects = {}

\* the active ledger records of the (app_label, model_name) pair of a model
ActiveRecordsOf(m) ==
    { i \in DOMAIN ledger :
        /\ ledger[i].app = m.app_label
        /\ ledger[i].view_name = m.model_name
        /\ ~ledger[i].deleted }

\* view is in the set after the step iff it was in it before
Keeps(view, before, after) == (view \in after) <=> (view \in before)

\* C4: mark_to_be_applied_new_views classifies every registered view by its
\* current definition hash and the active ledger hash: with no active record the
\* view is put in the create set and the step does not put it in the recreate
\* set; with an active record of a different hash it is put in the recreate set;
\* with an equal hash the step puts it in neither set.
C4_MarkNewClassifies ==
    [][(pc = "mark_to_be_applied_new_views" /\ pc' = "mark_to_be_deleted_old_views") =>
        \A m \in Models :
            LET view == get_view_name(m.app_label, m.model_name)
                creates == view \in views_to_be_created'
                recreates == view \in views_to_be_recreated'
                asBeforeC == Keeps(view, views_to_be_created, views_to_be_created')
                asBeforeR == Keeps(view, views_to_be_recreated, views_to_be_recreated')
            IN  IF db_table(m) \notin DOMAIN registry
                THEN asBeforeC /\ asBeforeR
                ELSE IF ActiveRecordsOf(m) = {}
                THEN creates /\ asBeforeR
                ELSE IF \E i \in ActiveRecordsOf(m) : ledger[i].hash # MarkHash(registry, view)
                THEN recreates /\ asBeforeC
                ELSE asBeforeC /\ asBeforeR]_vars

\* mark_to_be_applied_new_views has just classified three registered views: one
\* without an active record, one whose active record has another hash, and one
\* whose active record has the hash of its definition
C4_Witness ==
    /\ ev.op = "mark_to_be_applied_new_views"
    /\ \E m1, m2, m3 \in Models :
          LET v1 == get_view_name(m1.app_label, m1.model_name)
              v2 == get_view_name(m2.app_label, m2.model_name)
              v3 == get_view_name(m3.app_label, m3.model_name)
          IN  /\ {v1, v2, v3} \subseteq DOMAIN registry
              /\ ActiveRecordsOf(m1) = {}
              /\ v1 \in views_to_be_created /\ v1 \notin views_to_be_recreated
              /\ \E i \in ActiveRecordsOf(m2) : ledger[i].hash # MarkHash(registry, v2)
              /\ v2 \in views_to_be_recreated /\ v2 \notin views_to_be_created
              /\ ActiveRecordsOf(m3) # {}
              /\ \A i \in ActiveRecordsOf(m3) : ledger[i].hash = MarkHash(registry, v3)
              /\ v3 \notin views_to_be_created /\ v3 \notin views_to_be_recreated

\* the fully-qualified names of the active ledger records whose view is not registered
OrphanNames ==
    { get_view_name(ledger[i].app, ledger[i].view_name) : i \in
        { i \in DOMAIN ledger :
            /\ ~ledger[i].deleted
            /\ get_view_name(ledger[i].app, ledger[i].view_name) \notin DOMAIN registry } }

\* C5: mark_to_be_deleted_old_views adds to the pending-deletion set exactly the
\* fully-qualified names of the active ledger records whose view is not in the
\* registry (records of registered views and superseded records add nothing) and
\* leaves the create and recreate sets unchanged.
C5_MarkOldAddsExactlyOrphans ==
    [][(pc = "mark_to_be_deleted_old_views" /\ pc' = "create_views") =>
        /\ views_to_be_deleted' = views_to_be_deleted \cup OrphanNames
        /\ \A i \in DOMAIN ledger :
              LET name == get_view_name(ledger[i].app, ledger[i].view_name)
              IN  (ledger[i].deleted \/ name \in DOMAIN registry) =>
                     (name \in views_to_be_deleted' =>
                        (name \in views_to_be_deleted \/ name \in OrphanNames))
        /\ views_to_be_created' = views_to_be_created
        /\ views_to_be_recreated' = views_to_be_recreated]_vars

\* mark_to_be_deleted_old_views has just added the name of an active record of an
\* unregistered view, while the ledger also holds an active record of a
\* registered view, which it did not add
C5_Witness ==
    /\ ev.op = "mark_to_be_deleted_old_views"
    /\ OrphanNames # {}
    /\ OrphanNames \subseteq views_to_be_deleted
    /\ views_to_be_created \cup views_to_be_recreated # {}
    /\ \E i \in DOMAIN ledger :
          /\ ~ledger[i].deleted
          /\ get_view_name(ledger[i].app, ledger[i].view_name) \in DOMAIN registry
          /\ get_view_name(ledger[i].app, ledger[i].view_name) \notin views_to_be_deleted

IsPrefix(s, t) == Len(s) <= Len(t) /\ \A i \in 1 .. Len(s) : s[i] = t[i]

\* C6: every invocation of process_materialized_views runs its phases in the
\* order mark-new, mark-old, create, recreate, delete: the DDL of the create
\* phase is issued after the two mark phases, the DDL of the recreate phase after
\* the create phase has finished (its pending set is empty), the DROPs of the
\* delete phase after the recreate phase has finished; and an exception ends the
\* invocation, no later phase runs.
C6_PhasesInOrder ==
    /\ [](/\ IsPrefix(run.phases, Phases)
          /\ pc = "create_views loop" => run.phases = SubSeq(Phases, 1, 3)
          /\ pc = "recreate_views loop" =>
                (run.phases = SubSeq(Phases, 1, 4) /\ views_to_be_created = {})
          /\ pc = "delete_views loop" => run.phases = Phases)
    /\ [][ev'.op = "raise" => (pc' = "idle" /\ run'.phases = run.phases)]_vars
    /\ [][pc = "idle" => (run'.phases = run.phases \/ run'.phases = <<>>)]_vars

\* a CREATE of the recreate phase has just raised: the invocation is over and its
\* delete phase has not run
C6_Witness ==
    /\ ev.op = "raise"
    /\ pc = "idle"
    /\ run.phases = SubSeq(Phases, 1, 4)

\* C7: when the CREATE of a pending-creation view succeeds in create_views, a
\* new active ledger record of the view carrying the hash of the view's current
\* definition (the hash mark_to_be_applied_new_views compares with the ledger)
\* is written, the view is removed from the pending-creation set and it is
\* added to the created set.
C7_CreateSuccessRecordsCurrentHash ==
    [][(ev'.op = "create_views" /\ ev'.outcome = "created") =>
        LET view == ev'.view
            new == ledger'[Len(ledger')]
        IN  /\ Len(ledger') = Len(ledger) + 1
            /\ ~new.deleted
            /\ get_view_name(new.app, new.view_name) = view
            /\ new.hash = MarkHash(registry, view)
            /\ view \in views_to_be_created
            /\ view \notin views_to_be_created'
            /\ view \in created_views']_vars

\* C8: when a create-view call of the create phase fails with "already exists",
\* the view moves from the pending-creation set to the pending-recreation set
\* and neither the ledger nor the database changes; from then on the view is in
\* no tuple the create phase iterates, so the phase does not try it again.
C8_AlreadyExistsMovesToRecreate ==
    /\ [][(ev'.op = "create_views" /\ ev'.outcome = "already exists") =>
            /\ ev'.view \in views_to_be_created
            /\ ev'.view \notin views_to_be_created'
            /\ ev'.view \in views_to_be_recreated'
            /\ ledger' = ledger
            /\ catalog' = catalog]_vars
    /\ [](\A a \in run.answers :
             a.outcome = "already exists" =>
                (a.view \notin views_to_be_created /\ a.view \notin Range(todo)))

\* a CREATE of the create phase was just answered "already exists" and the view
\* is pending recreation instead of creation
C8_Witness ==
    /\ ev.op = "create_views"
    /\ ev.outcome = "already exists"
    /\ ev.view \in DOMAIN catalog
    /\ ev.view \in views_to_be_recreated
    /\ ev.view \notin views_to_be_created
    /\ [view |-> ev.view, outcome |-> "already exists"] \in run.answers

\* create_views is calling _create_view(view) for a view that a CREATE of the
\* same create phase answered "does not exist"
AttemptsAgain(view) ==
    /\ pc = "create_views loop"
    /\ todo # <<>>
    /\ Head(todo) = view
    /\ view \notin created_views
    /\ [view |-> view, outcome |-> "does not exist"] \in run.answers

\* a CREATE of the create phase was just answered "does not exist" for view
MissesRelation(view) ==
    /\ ev.op = "create_views"
    /\ ev.outcome = "does not exist"
    /\ ev.view = view

\* a create-view call that fails because a referenced relation does not exist
\* leaves the view pending and writes nothing
StaysPending ==
    [][(ev'.op = "create_views" /\ ev'.outcome = "does not exist") =>
        /\ ev'.view \in views_to_be_created'
        /\ ledger' = ledger
        /\ catalog' = catalog]_vars

\* C9 as stated: the view stays in the pending-creation set with no record
\* written, and create_views attempts it again in a later sweep of the same phase.
C9_MissingRelationRetried ==
    /\ StaysPending
    /\ \A view \in ViewNames : MissesRelation(view) ~> AttemptsAgain(view)

\* C9, amended: the view stays in the pending-creation set with no record
\* written, and create_views attempts it again in a later sweep of the same
\* phase unless the CREATE of another view raises first and ends the phase.
C9_MissingRelationRetriedUnlessRaise ==
    /\ StaysPending
    /\ \A view \in ViewNames :
          MissesRelation(view) ~> (AttemptsAgain(view) \/ ev.op = "raise")

\* a view that was answered "does not exist" in this create phase has just been
\* created by a later sweep
C9_Witness ==
    /\ ev.op = "create_views"
    /\ ev.outcome = "created"
    /\ [view |-> ev.view, outcome |-> "does not exist"] \in run.answers
    /\ ev.view \notin views_to_be_created

(***************************************************************************)
(* C10: termination of create_views.                                       *)
(***************************************************************************)
\* the relations the registered definition of view references
RefsOf(view) ==
    IF view \in DOMAIN registry
    THEN Refs(get_actual_view_definition(registry, view).text) ELSE {}

\* the pending-creation views that the views of S reference
PendingRefs(S) == UNION {RefsOf(v) : v \in S} \cap views_to_be_created

RECURSIVE PendingClosure(_)
PendingClosure(S) ==
    LET more == S \cup PendingRefs(S)
    IN  IF more = S THEN S ELSE PendingClosure(more)

\* every relation a pending-creation view references exists already or is
\* itself a pending-creation view
Satisfiable ==
    \A v \in views_to_be_created :
        v \in DOMAIN registry /\ RefsOf(v) \subseteq DOMAIN catalog \cup views_to_be_created

\* the references among pending-creation views are acyclic
Acyclic == \A v \in views_to_be_created : v \notin PendingClosure(PendingRefs({v}))

\* the loop of a sweep is over
SweepOver == pc = "create_views loop" /\ todo = <<>>

\* create_views is about to return with an empty pending-creation set
PhaseOver == SweepOver /\ views_to_be_created = {}

\* C10 as stated: if every relation referenced by a pending-creation view
\* exists or is itself pending and the references among pending views are
\* acyclic, create_views eventually terminates with an empty pending-creation
\* set and every such view created, whatever the iteration order; each sweep
\* creates at least one view.
C10_CreateViewsTerminatesAllCreated ==
    /\ (pc = "create_views" /\ Satisfiable /\ Acyclic) ~>
          (PhaseOver /\ \A a \in run.answers : a.outcome # "already exists")
    /\ [][(SweepOver /\ run.sweep # {} /\ Satisfiable /\ Acyclic /\ pc' # pc)
            => "created" \in run.sweep]_vars

\* C10, amended: under the same condition create_views eventually returns
\* with an empty pending-creation set or raises; every view that leaves the
\* pending-creation set was created, was found to exist already and moved to
\* the pending-recreation set, or was created before by this processor; each
\* sweep that does not raise takes at least one view off the pending set.
C10_CreateViewsTerminatesOrRaises ==
    /\ (pc = "create_views" /\ Satisfiable /\ Acyclic) ~> (PhaseOver \/ ev.op = "raise")
    /\ [][pc = "create_views loop" =>
            views_to_be_created \ views_to_be_created'
                \subseteq created_views' \cup views_to_be_recreated']_vars
    /\ [][(SweepOver /\ run.sweep # {} /\ Satisfiable /\ Acyclic /\ pc' # pc)
            => run.sweep \cap {"created", "already exists", "skipped"} # {}]_vars

\* a create phase that needed a second sweep is over: a view answered
\* "does not exist" earlier in the phase, the last sweep created one and the
\* pending-creation set is empty
C10_Witness ==
    /\ PhaseOver
    /\ "created" \in run.sweep
    /\ \E a \in run.answers : a.outcome = "does not exist"

(***************************************************************************)
(* C11: any other database error on CREATE is fatal.                        *)
(***************************************************************************)
\* the loop of create_views is about to call _create_view for a view whose
\* CREATE the database answers with an error that is neither "already exists"
\* nor "does not exist"
CreateWillFail ==
    /\ pc = "create_views loop"
    /\ todo # <<>>
    /\ Head(todo) \notin created_views
    /\ Head(todo) \in DOMAIN registry
    /\ CreateOutcome(catalog, Head(todo), get_actual_view_definition(registry, Head(todo)).text)
          \notin {"created", "already exists", "does not exist"}

\* C11: a database error on CREATE that is neither "already exists" nor
\* "does not exist" leaves create_views (and the run) as that same error; no
\* record is written for the view, the database is as before, and the
\* pending-creation, pending-recreation and created sets are as they were
\* before the failing call.
C11_OtherCreateErrorPropagates ==
    [][CreateWillFail =>
        /\ ev' = Event("raise", Head(todo),
                       CreateOutcome(catalog, Head(todo),
                                     get_actual_view_definition(registry, Head(todo)).text), 0)
        /\ pc' = "idle"
        /\ run'.ended = "raised"
        /\ ledger' = ledger
        /\ catalog' = catalog
        /\ views_to_be_created' = views_to_be_created
        /\ views_to_be_recreated' = views_to_be_recreated
        /\ created_views' = created_views]_vars

\* the create phase has just ended with the database's error for a view that is
\* still pending creation and has no record, while another view waits for it
C11_Witness ==
    /\ ev.op = "raise"
    /\ ev.outcome = "syntax error"
    /\ run.phases # <<>>
    /\ run.phases[Len(run.phases)] = "create_views"
    /\ ev.view \in views_to_be_created
    /\ views_to_be_created # {ev.view}
    /\ \A i \in DOMAIN ledger : get_view_name(ledger[i].app, ledger[i].view_name) # ev.view

(***************************************************************************)
(* C12: the order of recreate_views.                                       *)
(***************************************************************************)
\* self.__recreation_priority[view], for a view that has an entry
PriorityOf(priority, view) ==
    priority[CHOOSE i \in DOMAIN priority : priority[i].view = view].priority

\* the position of view in the sequence order
PositionOf(order, view) == CHOOSE i \in DOMAIN order : order[i] = view

\* recreate_views has the list of views to recreate and goes through it in the
\* order get_view_list_sorted_by_dependencies returned, by descending priority
RecreatesInSortedOrder ==
    /\ [][(pc = "recreate_views" /\ pc' = "recreate_views loop") =>
            /\ \A i, j \in DOMAIN todo' :
                  i < j => PriorityOf(recreation_priority', todo'[i])
                              >= PriorityOf(recreation_priority', todo'[j])
            /\ \A i \in DOMAIN todo' : HasKey(recreation_priority', todo'[i])
            /\ views_to_be_recreated \subseteq Range(todo')]_vars
    /\ [][(pc = "recreate_views loop" /\ todo # <<>>) =>
            /\ ev'.view = Head(todo)
            /\ (ev'.op # "raise" => todo' = Tail(todo))]_vars

\* each view of the list is dropped with CASCADE and then created
DropsWithCascadeThenCreates ==
    [][(pc = "recreate_views loop" /\ todo # <<>> /\ Head(todo) \in DOMAIN registry) =>
         LET dropped == DropInCatalog(catalog, Head(todo), TRUE)
             text == get_actual_view_definition(registry, Head(todo)).text
         IN  catalog' = IF CreateOutcome(dropped, Head(todo), text) = "created"
                        THEN CreateInCatalog(dropped, Head(todo), text)
                        ELSE dropped]_vars

\* view A depends on view B in the database
DependsOn(A, B) == A \in get_ref_views(catalog, B)

\* C12 as stated: recreate_views recreates the views one after another in the
\* order returned by get_view_list_sorted_by_dependencies (descending
\* priority), each with drop-with-CASCADE followed by create; when view A
\* depends on view B and both are pending recreation, priority(B) = 1,
\* priority(A) = 0 and B is recreated before A.
C12_RecreateOrderPriorityOneZero ==
    /\ RecreatesInSortedOrder
    /\ DropsWithCascadeThenCreates
    /\ [][(pc = "recreate_views" /\ pc' = "recreate_views loop") =>
            \A A, B \in views_to_be_recreated :
                DependsOn(A, B) =>
                    /\ PriorityOf(recreation_priority', B) = 1
                    /\ PriorityOf(recreation_priority', A) = 0
                    /\ PositionOf(todo', B) < PositionOf(todo', A)]_vars

\* C12, amended: the same, with priority(B) greater than priority(A) in place
\* of the two values.
C12_RecreateOrderDependedOnFirst ==
    /\ RecreatesInSortedOrder
    /\ DropsWithCascadeThenCreates
    /\ [][(pc = "recreate_views" /\ pc' = "recreate_views loop") =>
            \A A, B \in views_to_be_recreated :
                DependsOn(A, B) =>
                    /\ PriorityOf(recreation_priority', B) > PriorityOf(recreation_priority', A)
                    /\ PositionOf(todo', B) < PositionOf(todo', A)]_vars

\* a view that depends on another one was just recreated after the one it
\* depends on, both having been pending recreation
C12_Witness ==
    /\ ev.op = "recreate_views"
    /\ ev.outcome = "created"
    /\ \E B \in recreated_views \ {ev.view} :
          /\ DependsOn(ev.view, B)
          /\ HasKey(recreation_priority, B)
          /\ HasKey(recreation_priority, ev.view)
          /\ PriorityOf(recreation_priority, B) > PriorityOf(recreation_priority, ev.view)

(***************************************************************************)
(* C13: the mapping returned by get_view_list_sorted_by_dependencies.      *)
(***************************************************************************)
\* get_view_list_sorted_by_dependencies has just returned the mapping ev.outcome
SortedReturned == ev.op = "get_view_list_sorted_by_dependencies"

\* C13 as stated: the mapping returned by get_view_list_sorted_by_dependencies
\* is sorted strictly descending by accumulated priority: each entry's
\* priority is greater than the priority of the entry after it.
C13_SortedStrictlyDescending ==
    SortedReturned =>
        \A i \in 1 .. (Len(ev.outcome) - 1) :
            ev.outcome[i].priority > ev.outcome[i + 1].priority

\* C13, amended: the returned mapping holds every entry of the priority
\* counter once, no entry has a smaller priority than the entry after it, and
\* entries of equal priority are in the order in which the counter got them.
C13_SortedDescendingStable ==
    SortedReturned =>
        /\ \A i \in 1 .. (Len(ev.outcome) - 1) :
              ev.outcome[i].priority >= ev.outcome[i + 1].priority
        /\ Len(ev.outcome) = Len(recreation_priority)
        /\ Range(ev.outcome) = Range(recreation_priority)
        /\ \A i, j \in DOMAIN ev.outcome :
              (i < j /\ ev.outcome[i].priority = ev.outcome[j].priority) =>
                  PositionOf(Keys(recreation_priority), ev.outcome[i].view)
                      < PositionOf(Keys(recreation_priority), ev.outcome[j].view)

\* a returned mapping of three entries, two of them with the same priority,
\* that is not in the order of the counter
C13_Witness ==
    /\ SortedReturned
    /\ Len(ev.outcome) = 3
    /\ ev.outcome # recreation_priority
    /\ ev.outcome[1].priority > ev.outcome[2].priority
    /\ ev.outcome[2].priority = ev.outcome[3].priority

(***************************************************************************)
(* C14: drop and create of one recreation.                                 *)
(***************************************************************************)
\* C14: for each view handled by recreate_views the drop-with-cascade and the
\* create that follows are applied atomically: either both take effect (the
\* view is in the database again, with its record) or neither does (the
\* database and the ledger are as before), so that no view is left dropped
\* when the create step fails.
C14_RecreateIsAtomic ==
    [][(pc = "recreate_views loop" /\ todo # <<>>) =>
        \/ /\ ev'.outcome = "created"
           /\ Head(todo) \in DOMAIN catalog'
        \/ /\ catalog' = catalog
           /\ ledger' = ledger]_vars

(***************************************************************************)
(* C15: _recreate_view when the drop fails, and when both steps succeed.   *)
(***************************************************************************)
\* _recreate_view has just been called directly
RecreateCalled(e) == e.op \in {"_recreate_view", "_recreate_view CASCADE"}

\* the drop step of _recreate_view(view, delete_cascade) does not succeed in
\* the current state
DropWillFail(view, delete_cascade) ==
    _delete_view(view, delete_cascade, catalog, recreation_priority, views_to_be_deleted).raised

\* C15: in _recreate_view, when the drop step does not succeed the create step
\* is not attempted (no view and no record appear), the view stays in the
\* pending-recreation set if it was there, it is not added to the recreated
\* set, and the call ends with the error, so that nothing retries it; when
\* both steps succeed the view leaves the pending-recreation set and enters
\* the recreated set.
C15_RecreateAfterDropOutcome ==
    [][RecreateCalled(ev') =>
        /\ DropWillFail(ev'.view, ev'.op = "_recreate_view CASCADE") =>
              /\ ev'.outcome = "dependent objects"
              /\ run'.ended = "raised"
              /\ pc' = "idle"
              /\ catalog' = catalog
              /\ ledger' = ledger
              /\ views_to_be_created' = views_to_be_created
              /\ views_to_be_recreated' = views_to_be_recreated
              /\ recreated_views' = recreated_views
        /\ ev'.outcome = "created" =>
              /\ ~DropWillFail(ev'.view, ev'.op = "_recreate_view CASCADE")
              /\ ev'.view \in DOMAIN catalog'
              /\ ev'.view \notin views_to_be_recreated'
              /\ recreated_views' = recreated_views \cup {ev'.view}]_vars

\* _recreate_view was called without CASCADE for a pending-recreation view
\* that another view depends on: the drop failed, the view is still in the
\* database, still pending and not recreated
C15_Witness ==
    /\ ev.op = "_recreate_view"
    /\ ev.outcome = "dependent objects"
    /\ run.ended = "raised"
    /\ ev.view \in views_to_be_recreated
    /\ ev.view \notin recreated_views
    /\ ev.view \in DOMAIN catalog
    /\ Dependents(catalog, ev.view) # {}

(***************************************************************************)
(* C16: the retry of a blocked DROP with CASCADE.                          *)
(***************************************************************************)
\* everything that depends on view, directly or not, as DROP ... CASCADE sees it
AllDependents(view) == CascadeClosure(catalog, {view}) \ {view}

\* the views among them
ViewDependents(view) == AllDependents(view) \cap ViewNames

\* _delete_view(view) was just called without CASCADE for a view of the
\* database that something depends on: its first DROP failed
BlockedDropCalled(e) ==
    /\ e.op = "_delete_view"
    /\ e.view \in DOMAIN catalog
    /\ Dependents(catalog, e.view) # {}

\* the call dropped the view and everything that depends on it, and returned
DroppedWithCascade(e) ==
    /\ e.outcome = "dropped cascade"
    /\ run'.ended = "returned"
    /\ catalog' = [v \in DOMAIN catalog \ CascadeClosure(catalog, {e.view}) |-> catalog[v]]

\* the call raised the error of the first DROP and dropped nothing
RaisedOriginalError(e) ==
    /\ e.outcome = "dependent objects"
    /\ run'.ended = "raised"
    /\ catalog' = catalog

C17_DeleteDropsOnlyMarkedViews ==
    [][pc = "delete_views loop" =>
        (DOMAIN catalog \ DOMAIN catalog') \cap ViewNames \subseteq run.marked]_vars

\* a step of delete_views has just dropped a view together with a dependent,
\* both pending deletion when delete_views started, and a view that was not
\* is still in the database
C17_Witness ==
    /\ ev.op = "delete_views"
    /\ ev.outcome = "dropped cascade"
    /\ ev.view \in run.marked
    /\ \E v \in run.marked \ {ev.view} : v \notin DOMAIN catalog
    /\ \E v \in ViewNames \ run.marked : v \in DOMAIN catalog

\* the ledger records of view
RecordsOf(view) ==
    {i \in DOMAIN ledger : get_view_name(ledger[i].app, ledger[i].view_name) = view}

\* C18: when delete_views returns normally, the pending-deletion set is empty,
\* every view that was pending deletion is in the deleted set, and no ledger
\* record of any of those views has deleted = false.
C18_DeleteViewsReturnsClean ==
    (ev.op = "return" /\ run.ended = "returned") =>
        /\ views_to_be_deleted = {}
        /\ run.marked \subseteq deleted_views
        /\ \A view \in run.marked : \A i \in RecordsOf(view) : ledger[i].deleted
        /\ DOMAIN catalog \cap run.marked = {}

\* delete_views has returned after deleting two views that had records, and
\* the record of a view that was not pending deletion is still active
C18_Witness ==
    /\ ev.op = "return"
    /\ run.ended = "returned"
    /\ Cardinality(run.marked) = 2
    /\ \A view \in run.marked : RecordsOf(view) # {}
    /\ \E i \in DOMAIN ledger : ~ledger[i].deleted

(***************************************************************************)
(* C19: the definition hash.                                               *)
(***************************************************************************)
IsWhitespace(token) == token \in {tSpace, tNewline, tTab}

IsQuote(token) == token \in {tDquote, tSquote}

\* text without its whitespace and its quote characters, in lower case
Bare(text) ==
    LET kept == SelectSeq(text, LAMBDA token : ~IsWhitespace(token) /\ ~IsQuote(token))
    IN  [i \in DOMAIN kept |-> Lower(kept[i])]

\* the two texts differ only in whitespace, quoting or letter case
DifferOnlyInLayout(a, b) == Bare(a) = Bare(b)

\* C19: for all pairs of definition texts that differ only in whitespace,
\* quoting or letter case, the definition hash of the two texts is equal.
C19_HashIgnoresLayout ==
    ev.op = "get_hash_from_string" =>
        \A other \in HashTexts :
            DifferOnlyInLayout(ev.view, other) => get_hash_from_string(other) = ev.outcome

(***************************************************************************)
(* C20: __get_prioritized_views of a view without dependents.              *)
(***************************************************************************)
\* self.__recreation_priority[view] as the defaultdict(int) reads it
CounterOf(priority, view) == IF HasKey(priority, view) THEN PriorityOf(priority, view) ELSE 0

\* C20: for every view that has no dependents, get_prioritized_views returns
\* the empty set and the view's priority counter is increased by 0: the view
\* has a counter entry afterwards, with the value it had (0 if it had none),
\* and the other entries are as before.
C20_NoDependentsNoPriority ==
    [][(ev'.op = "get_prioritized_views" /\ Dependents(catalog, ev'.view) \cap ViewNames = {}) =>
        /\ ev'.outcome = {}
        /\ HasKey(recreation_priority', ev'.view)
        /\ \A v \in ViewNames :
              CounterOf(recreation_priority', v) = CounterOf(recreation_priority, v)
        /\ \A v \in ViewNames \ {ev'.view} :
              HasKey(recreation_priority', v) = HasKey(recreation_priority, v)]_vars

\* __get_prioritized_views has returned the empty set for a view of the
\* database without dependents, and the counter that held another view before
\* holds the view with priority 0 as well
C20_Witness ==
    /\ ev.op = "get_prioritized_views"
    /\ ev.outcome = {}
    /\ ev.view \in DOMAIN catalog
    /\ Dependents(catalog, ev.view) = {}
    /\ Len(recreation_priority) = 2
    /\ PriorityOf(recreation_priority, ev.view) = 0
    /\ \E v \in ViewNames : HasKey(recreation_priority, v) /\ PriorityOf(recreation_priority, v) > 0

(***************************************************************************)
(* C21, C22: what one call of __get_prioritized_views counts and returns.  *)
(***************************************************************************)
\* the views that depend on view directly
DirectDependentViews(view) == Dependents(catalog, view) \cap ViewNames

\* the dependency edges among view and its direct and transitive dependents
ClosureEdges(view) ==
    { e \in ViewNames \X ViewNames :
        /\ e[1] \in {view} \cup ViewDependents(view)
        /\ e[2] \in DirectDependentViews(e[1]) }

\* the paths that lead from view along 'is referenced by' edges, the path of
\* view alone included
DependencyPaths(view) ==
    { p \in UNION { [1 .. n -> ViewNames] : n \in 1 .. Cardinality(ViewNames) } :
        /\ p[1] = view
        /\ \A i \in 1 .. (Len(p) - 1) : p[i + 1] \in DirectDependentViews(p[i]) }

\* __get_prioritized_views(view) has just been called on an empty counter
PrioritizedOnEmptyCounter == ev'.op = "get_prioritized_views" /\ recreation_priority = <<>>

\* C21 as stated: for every view v and every acyclic set of dependency edges,
\* one call of get_prioritized_views(v) on an empty priority counter leaves
\* counter[v] equal to the total number of edges in the transitive dependent
\* closure of v.
C21_CounterIsEdgeCount ==
    [][PrioritizedOnEmptyCounter =>
        CounterOf(recreation_priority', ev'.view) = Cardinality(ClosureEdges(ev'.view))]_vars

\* C21, amended: the call leaves counter[v] equal to the number of dependency
\* paths from v, the path of v alone included, that end at a view with at
\* least one dependent: 0 for a view without dependents, otherwise 1 plus the
\* sum of that number over its direct dependents.
C21_CounterIsPathCount ==
    [][PrioritizedOnEmptyCounter =>
        /\ CounterOf(recreation_priority', ev'.view) =
              Cardinality({ p \in DependencyPaths(ev'.view) :
                              DirectDependentViews(p[Len(p)]) # {} })
        /\ Keys(recreation_priority') = <<ev'.view>>]_vars

\* the call was made for a view with two dependents, one of them depending on
\* the other: three edges, and the counter is 2
C21_Witness ==
    /\ ev.op = "get_prioritized_views"
    /\ Len(recreation_priority) = 1
    /\ CounterOf(recreation_priority, ev.view) = 2
    /\ Cardinality(ViewDependents(ev.view)) = 2
    /\ Cardinality(ClosureEdges(ev.view)) = 3

\* C22: for every view v and every acyclic set of dependency edges, the set
\* returned by get_prioritized_views(v) is exactly the set of all direct and
\* transitive dependents of v, and nothing else.
C22_ReturnsTransitiveDependents ==
    [][ev'.op = "get_prioritized_views" =>
        /\ ev'.outcome = ViewDependents(ev'.view)
        /\ \A other \in ViewNames :
              other \in ev'.outcome <=>
                 \E p \in DependencyPaths(ev'.view) : Len(p) > 1 /\ p[Len(p)] = other]_vars

\* the call returned a direct and a transitive dependent
C22_Witness ==
    /\ ev.op = "get_prioritized_views"
    /\ Cardinality(ev.outcome) = 2
    /\ \E other \in ev.outcome : other \notin DirectDependentViews(ev.view)

(***************************************************************************)
(* MaterializedViewModel.refresh (base_model.py 99-114), called by the     *)
(* project's cron job or from a request, on any database.                  *)
(***************************************************************************)
\* what REFRESH MATERIALIZED VIEW [CONCURRENTLY] view can answer on the database
\* cat (base_model.py 49-54): it raises for a relation that does not exist, and
\* for an existing one it succeeds or raises (CONCURRENTLY without a unique
\* index, a lock timeout, a failing query)
RefreshOutcomes(cat, view) == IF view \in DOMAIN cat THEN {"ok", "raised"} ELSE {"raised"}

\* the MaterializedViewRefreshLog row of lines 100-102, with what lines 109-111
\* set on it
RefreshRecord(view, ddl) ==
    [view_name |-> view, failed |-> (ddl = "raised"),
     duration |-> IF ddl = "ok" THEN "set" ELSE "null"]

\* log.save() of line 113, an INSERT on the connection the caller uses: after a
\* statement has failed inside a transaction block (transaction.atomic, or a
\* request under ATOMIC_REQUESTS as in testproject/settings.py 25) PostgreSQL
\* rejects every further statement of the block, and save() raises
SaveRaises(ddl, in_atomic_block) == in_atomic_block /\ ddl = "raised"

\* one call of refresh(): the table afterwards and how the call ended
refresh_call(log, view, ddl, in_atomic_block) ==
    IF SaveRaises(ddl, in_atomic_block)
    THEN [log |-> log, ended |-> "raised"]
    ELSE [log |-> Append(log, RefreshRecord(view, ddl)), ended |-> "returned"]

refresh ==
    /\ pc = "idle"
    /\ budget.calls > 0
    /\ budget' = [budget EXCEPT !.calls = @ - 1]
    /\ \E view \in ViewNames, in_atomic_block \in BOOLEAN :
       \E ddl \in RefreshOutcomes(catalog, view) :
       \E r \in {refresh_call(refresh_log, view, ddl, in_atomic_block)} :
          /\ refresh_log' = r.log
          /\ ev' = Event("refresh", view, [ddl |-> ddl, ended |-> r.ended],
                         IF in_atomic_block THEN 1 ELSE 0)
    /\ UNCHANGED <<command, frames, registry, catalog, ledger, procVars, pc, todo, run>>

RefreshInit ==
    /\ registry \in CallRegistries
    /\ catalog \in Catalogs
    /\ ledger = LedgerOf(registry, catalog)
    /\ views_to_be_created = {}
    /\ views_to_be_recreated = {}
    /\ views_to_be_deleted = {}
    /\ created_views = {}
    /\ recreated_views = {}
    /\ deleted_views = {}
    /\ recreation_priority = <<>>
    /\ pc = "idle"
    /\ todo = <<>>
    /\ ev = Event("init", NoView, "", 0)
    /\ run = [second |-> FALSE, effects |-> {}, phases |-> <<>>, ended |-> "no",
              answers |-> {}, sweep |-> {}, marked |-> {}]
    /\ budget = [calls |-> MaxRefreshes, deploys |-> 0, marks |-> 0]
    /\ refresh_log = <<>>
    /\ command = NoCommand
    /\ frames = <<>>

RefreshNext == refresh

RefreshSpec == RefreshInit /\ [][RefreshNext]_vars

\* C23: every call of refresh() writes exactly one RefreshRecord whether the
\* REFRESH DDL succeeds or raises; the record has failed = true if and only if
\* the DDL raised, duration is set only on success, and no exception from the
\* DDL escapes to the caller.
C23_RefreshWritesOneRecord ==
    [][ev'.op = "refresh" =>
        /\ Len(refresh_log') = Len(refresh_log) + 1
        /\ SubSeq(refresh_log', 1, Len(refresh_log)) = refresh_log
        /\ refresh_log'[Len(refresh_log')].view_name = ev'.view
        /\ refresh_log'[Len(refresh_log')].failed <=> (ev'.outcome.ddl = "raised")
        /\ (refresh_log'[Len(refresh_log')].duration = "set") <=> (ev'.outcome.ddl = "ok")
        /\ ev'.outcome.ended = "returned"]_vars

\* C24: across a synchronization run a view may move from the pending-creation
\* set to the pending-recreation set (only on an "already exists" conflict),
\* but a view that is in the pending-recreation set is never put into the
\* pending-creation set.
C24_NeverFromRecreateToCreate ==
    [][\A view \in views_to_be_recreated :
          view \in views_to_be_created' => view \in views_to_be_created]_vars

(***************************************************************************)
(* The management command migrate_with_views (migrate_with_views.py), run  *)
(* on any database the project can have left behind.                       *)
(***************************************************************************)
\* the message of the NotSupportedError that ALTER TABLE raises for a column
\* that object depends on: a materialized view, or another relation
DependsOnColumn(object) ==
    [rule |-> IF object \in ViewNames THEN "materialized view" ELSE "view", name |-> object]

\* an extract_mv_name that takes any relation's name
extract_any_name(line) == line.name

\* extract_mv_name (lines 10-20): the name after "rule _RETURN on materialized
\* view", or None
extract_mv_name(line) == IF line.rule = "materialized view" THEN line.name ELSE NoView

\* a migration that fails for a dropped view as well
migrate_whatever_was_dropped(cat, blockers) == { DependsOnColumn(object) : object \in blockers }

\* call_command("migrate") of line 33 on the database cat, for migrations that
\* alter columns the objects of blockers depend on: the messages it can raise
\* with; none when it succeeds
migrate(cat, blockers) == { DependsOnColumn(object) : object \in blockers \cap DOMAIN cat }

\* the command between two steps: where the innermost handle() call is, how
\* many handle() calls are running, and what the calls of this run have done
CommandAt(at, depth, recreated, blockers, migrated, deleted) ==
    [at |-> at, depth |-> depth, views_to_be_recreated |-> recreated,
     blockers |-> blockers, migrated |-> migrated, deleted |-> deleted]

\* manage.py migrate_with_views: handle() is called
handle ==
    /\ pc = "idle"
    /\ command.depth = 0
    /\ budget.calls > 0
    /\ budget' = [budget EXCEPT !.calls = @ - 1]
    /\ \E blockers \in SUBSET DOMAIN catalog :
          command' = CommandAt("migrate", 1, command.views_to_be_recreated, blockers, FALSE, FALSE)
    /\ ev' = Event("handle", NoView, "", 0)
    /\ UNCHANGED <<refresh_log, frames, registry, catalog, ledger, procVars, pc, todo, run>>

\* line 33: the migration succeeds
handle_migrated ==
    /\ pc = "idle"
    /\ command.at = "migrate"
    /\ migrate(catalog, command.blockers) = {}
    /\ command' = [command EXCEPT !.at = "process", !.migrated = TRUE]
    /\ ev' = Event("migrate", NoView, "ok", 0)
    /\ UNCHANGED <<refresh_log, frames, registry, catalog, ledger, procVars, pc, todo, run, budget>>

\* lines 34-43: the migration raises NotSupportedError with the name of a
\* materialized view; the view and what get_view_list_sorted_by_dependencies
\* returns are marked, and delete_views is called
handle_not_supported ==
    /\ pc = "idle"
    /\ command.at = "migrate"
    /\ \E line \in migrate(catalog, command.blockers) :
       \E mv_name \in {extract_mv_name(line)} :
          /\ mv_name # NoView
          /\ \E g \in get_view_list_sorted_by_dependencies(
                         catalog, recreation_priority, command.views_to_be_recreated \cup {mv_name}) :
             \E marked \in {command.views_to_be_recreated \cup {mv_name}
                               \cup Range(Keys(g.sorted_views))} :
                /\ recreation_priority' = g.priority
                /\ views_to_be_deleted' = views_to_be_deleted \cup marked
                /\ command' = [command EXCEPT !.at = "delete_views",
                                              !.views_to_be_recreated = marked,
                                              !.deleted = FALSE]
          /\ ev' = Event("migrate", mv_name, line.rule, 0)
    /\ pc' = "delete_views"
    /\ run' = [run EXCEPT !.phases = <<>>, !.ended = "no", !.effects = {}]
    /\ UNCHANGED <<refresh_log, frames, registry, catalog, ledger, views_to_be_created,
                   views_to_be_recreated, created_views, recreated_views, deleted_views,
                   todo, budget>>

\* lines 36-38: no name can be extracted, the error is raised again
handle_raise_exc ==
    /\ pc = "idle"
    /\ command.at = "migrate"
    /\ \E line \in migrate(catalog, command.blockers) :
          /\ extract_mv_name(line) = NoView
          /\ ev' = Event("raise", line.name, line.rule, 0)
    /\ command' = [command EXCEPT !.at = "raised", !.depth = 0]
    /\ UNCHANGED <<refresh_log, frames, registry, catalog, ledger, procVars, pc, todo, run, budget>>

\* line 44: delete_views has returned, handle() calls itself
handle_again ==
    /\ pc = "idle"
    /\ command.at = "delete_views"
    /\ ev.op = "return"
    /\ command' = [command EXCEPT !.at = "migrate", !.depth = @ + 1, !.deleted = TRUE]
    /\ ev' = Event("handle", NoView, "again", 0)
    /\ UNCHANGED <<refresh_log, frames, registry, catalog, ledger, procVars, pc, todo, run, budget>>

\* line 46: process_materialized_views is called
handle_process ==
    /\ pc = "idle"
    /\ command.at = "process"
    /\ command' = [command EXCEPT !.at = "processing"]
    /\ pc' = "mark_to_be_applied_new_views"
    /\ ev' = Event("process_materialized_views", NoView, "", 0)
    /\ run' = [second |-> run.ended = "returned", effects |-> {}, phases |-> <<>>, ended |-> "no",
               answers |-> {}, sweep |-> {}]
    /\ UNCHANGED <<refresh_log, frames, registry, catalog, ledger, procVars, todo, budget>>

\* process_materialized_views has returned and with it one handle() call: the
\* call that called it goes on at line 46, or the command is over
handle_return ==
    /\ pc = "idle"
    /\ command.at = "processing"
    /\ ev.op = "return"
    /\ command' = [command EXCEPT !.depth = @ - 1,
                                  !.at = IF command.depth > 1 THEN "process" ELSE "done"]
    /\ ev' = Event("handle", NoView, "return", 0)
    /\ UNCHANGED <<refresh_log, frames, registry, catalog, ledger, procVars, pc, todo, run, budget>>

\* delete_views or process_materialized_views has raised: the exception leaves
\* every handle() call
handle_raise ==
    /\ pc = "idle"
    /\ command.at \in {"delete_views", "processing"}
    /\ ev.op = "raise"
    /\ command' = [command EXCEPT !.at = "raised", !.depth = 0]
    /\ ev' = Event("handle", ev.view, "raise", 0)
    /\ UNCHANGED <<refresh_log, frames, registry, catalog, ledger, procVars, pc, todo, run, budget>>

\* a new process: the class attributes of lines 25-26 are new, the database
\* holds views that some version of the project has created
CommandInit ==
    /\ registry \in CallRegistries
    /\ catalog \in Catalogs
    /\ \E deployed \in CallRegistries : ledger = LedgerOf(deployed, catalog)
    /\ views_to_be_created = {}
    /\ views_to_be_recreated = {}
    /\ views_to_be_deleted = {}
    /\ created_views = {}
    /\ recreated_views = {}
    /\ deleted_views = {}
    /\ recreation_priority = <<>>
    /\ pc = "idle"
    /\ todo = <<>>
    /\ ev = Event("init", NoView, "", 0)
    /\ run = [second |-> FALSE, effects |-> {}, phases |-> <<>>, ended |-> "no",
              answers |-> {}, sweep |-> {}]
    /\ budget = [calls |-> MaxCommands, deploys |-> 0, marks |-> 0]
    /\ refresh_log = <<>>
    /\ command = NoCommand
    /\ frames = <<>>

CommandNext ==
    \/ handle
    \/ handle_migrated
    \/ handle_not_supported
    \/ handle_raise_exc
    \/ handle_again
    \/ handle_process
    \/ handle_return
    \/ handle_raise
    \/ mark_to_be_applied_new_views
    \/ mark_to_be_deleted_old_views
    \/ create_views
    \/ create_views_skip
    \/ create_views_step
    \/ create_views_raise
    \/ create_views_end
    \/ recreate_views
    \/ recreate_views_step
    \/ recreate_views_raise
    \/ recreate_views_end
    \/ delete_views
    \/ delete_views_step
    \/ delete_views_raise
    \/ delete_views_end

CommandSpec == CommandInit /\ [][CommandNext]_vars

\* the migration of line 33 has just failed with a 'depends on column' error
\* that names a materialized view
MigrationFailed == ev'.op = "migrate" /\ ev'.outcome = "materialized view"

\* handle() has just called itself: the migration is about to be tried again
MigrationRetried == command'.at = "migrate" /\ command.at # "migrate" /\ command'.depth > 1

\* C25: in the migrate_with_views command, each time the migration fails with
\* a 'view depends on column' error the named view and its dependent closure
\* are marked for deletion and delete_views runs before the migration is
\* retried; the migration is retried until it succeeds, and
\* process_materialized_views() is invoked only after a migration call has
\* succeeded.  Every retry follows a delete_views that returned and left none
\* of the marked views in the database, so there are at most as many retries
\* as blocking objects; after delete_views the command goes on with the
\* retry unless delete_views raised, and a migration succeeds only when
\* nothing blocks it any more.
C25_DeleteThenRetryThenProcess ==
    [][/\ MigrationFailed =>
            /\ ev'.view \in ViewNames
            /\ {ev'.view} \cup ViewDependents(ev'.view) \subseteq views_to_be_deleted'
            /\ pc' = "delete_views"
            /\ command'.at = "delete_views"
       /\ MigrationRetried =>
            /\ command.at = "delete_views"
            /\ run.ended = "returned"
            /\ command.views_to_be_recreated \cap DOMAIN catalog = {}
            /\ command'.depth <= Cardinality(command.blockers) + 1
       /\ (command.at = "delete_views" /\ command'.at # "delete_views") =>
            MigrationRetried \/ (ev.op = "raise" /\ command'.at = "raised")
       /\ ev'.op = "process_materialized_views" => command.migrated
       /\ (command'.migrated /\ ~command.migrated) =>
            migrate(catalog, command.blockers) = {}]_vars

\* a command has ended whose first migration failed, whose views were deleted,
\* whose second migration succeeded and which has called
\* process_materialized_views twice
C25_Witness ==
    /\ command.at = "done"
    /\ command.deleted
    /\ command.migrated
    /\ command.views_to_be_recreated # {}
    /\ run.second

\* the migration of line 33 has just raised a NotSupportedError whose message
\* names no materialized view
MigrationFailedWithoutName == ev'.op \in {"migrate", "raise"} /\ ev'.outcome = "view"

\* C30: in the migrate_with_views command, when the migration raises an error
\* from which no materialized-view name can be extracted, the error is
\* re-raised, no view is marked for deletion or deleted, the migration is not
\* retried and process_materialized_views() is not invoked.
C30_UnnamedErrorIsRaisedAgain ==
    [][/\ MigrationFailedWithoutName =>
            /\ ev'.op = "raise"
            /\ command'.at = "raised"
            /\ command'.depth = 0
            /\ command'.views_to_be_recreated = command.views_to_be_recreated
            /\ UNCHANGED <<catalog, ledger, procVars, pc>>
       /\ command.at = "raised" =>
            /\ command'.at = "raised" \/ (command'.at = "migrate" /\ command'.depth = 1)
            /\ pc' = "idle"
            /\ UNCHANGED <<catalog, ledger, procVars>>]_vars

\* a retried migration has raised such an error: the command is over and the
\* handle() call that caught the first error has not called
\* process_materialized_views
C30_Witness ==
    /\ command.at = "raised"
    /\ ev.op = "raise"
    /\ ev.outcome = "view"
    /\ command.deleted
    /\ ~command.migrated

\* a view has just been created: by create_views, or by recreate_views after
\* the drop
ViewCreated == ev'.op \in {"create_views", "recreate_views"} /\ ev'.outcome = "created"

\* C26: ledger records are never physically removed: over any sequence of
\* create, recreate and delete operations the number of MigrationRecords
\* never decreases, a record is added on every successful view creation, and
\* the only change to an existing record is its deleted flag going from false
\* to true.
C26_LedgerOnlyGrows ==
    [][/\ Len(ledger') >= Len(ledger)
       /\ \A i \in DOMAIN ledger :
             \/ ledger'[i] = ledger[i]
             \/ ~ledger[i].deleted /\ ledger'[i] = [ledger[i] EXCEPT !.deleted = TRUE]
       /\ ViewCreated =>
             /\ Len(ledger') = Len(ledger) + 1
             /\ ~ledger'[Len(ledger')].deleted
             /\ get_view_name(ledger'[Len(ledger')].app, ledger'[Len(ledger')].view_name) = ev'.view
       /\ Len(ledger') > Len(ledger) => ViewCreated]_vars

\* a view was created again after a change of its definition: the ledger holds
\* its superseded record and its new one
C26_Witness ==
    /\ ev.op = "recreate_views"
    /\ ev.outcome = "created"
    /\ \E i, j \in DOMAIN ledger :
          /\ i < j
          /\ SamePair(ledger[i], ledger[j])
          /\ ledger[i].deleted
          /\ ~ledger[j].deleted
          /\ ledger[i].hash # ledger[j].hash

\* the loop of create_views is at a view that is in the created set
AtCreatedView == pc = "create_views loop" /\ todo # <<>> /\ Head(todo) \in created_views

\* C29: create_views never issues CREATE DDL for a view that is already in the
\* processor's created set: such a view is removed from the pending-creation
\* set without any DDL and the created set is unchanged.
C29_CreatedViewIsSkipped ==
    [][AtCreatedView =>
        /\ catalog' = catalog
        /\ ledger' = ledger
        /\ views_to_be_created' = views_to_be_created \ {Head(todo)}
        /\ created_views' = created_views
        /\ views_to_be_recreated' = views_to_be_recreated
        /\ ev' = Event("create_views", Head(todo), "skipped", 0)
        /\ todo' = Tail(todo)]_vars

\* a view that this processor created in an earlier run, and that exists, was
\* pending again and has just been skipped
C29_Witness ==
    /\ ev.op = "create_views"
    /\ ev.outcome = "skipped"
    /\ ev.view \in created_views
    /\ ev.view \in DOMAIN catalog
    /\ ev.view \notin views_to_be_created

\* the index at which the walk over walked first meets a view that view depends
\* on, directly or not: where view is discovered (0: never)
DiscoveredAt(walked, view) ==
    LET at == { i \in DOMAIN walked : view \in ViewDependents(walked[i]) }
    IN  IF at = {} THEN 0 ELSE CHOOSE i \in at : \A j \in at : i <= j

\* C28: get_view_list_sorted_by_dependencies(views) expands its worklist to a
\* fixed point: every view of the input set and every transitive dependent of
\* an input view is walked exactly once, in discovery order (input views
\* first, then newly found dependents), and each of them appears as a key of
\* the returned mapping.
C28_WalksClosureOnceInDiscoveryOrder ==
    [][ev'.op = "get_view_list_sorted_by_dependencies" =>
        LET views == ev'.view
            walked == run'.walked
        IN  /\ Range(walked) = views \cup UNION { ViewDependents(view) : view \in views }
            /\ \A i, j \in DOMAIN walked : walked[i] = walked[j] => i = j
            /\ \A i \in DOMAIN walked : (i <= Cardinality(views)) <=> (walked[i] \in views)
            /\ \A j \in DOMAIN walked :
                  Cardinality(views) < j =>
                     /\ 0 < DiscoveredAt(walked, walked[j])
                     /\ DiscoveredAt(walked, walked[j]) < j
            /\ \A j, k \in DOMAIN walked :
                  (Cardinality(views) < j /\ j < k) =>
                     DiscoveredAt(walked, walked[j]) <= DiscoveredAt(walked, walked[k])
            /\ Range(walked) \subseteq Range(Keys(ev'.outcome))]_vars

\* the call was made for one view and has walked its two dependents after it
C28_Witness ==
    /\ ev.op = "get_view_list_sorted_by_dependencies"
    /\ Cardinality(ev.view) = 1
    /\ Len(run.walked) = 3
    /\ Len(ev.outcome) = 3

(***************************************************************************)
(* __get_prioritized_views step by step (processor.py 234-249): one frame  *)
(* per running __prioritize_view call, on databases whose dependency rows  *)
(* may form cycles.                                                        *)
(***************************************************************************)
\* the dependency rows __get_related_views can return for some of the views:
\* no view references itself, cycles over two or three views are possible
CyclicCatalogs ==
    UNION { { cat \in [S -> SUBSET S] : \A v \in S : v \notin cat[v] } : S \in SUBSET ViewNames }

\* a cycle of 'is referenced by' edges can be reached from view
CycleReachable(cat, view) ==
    \E w \in CascadeClosure(cat, {view}) : w \in CascadeClosure(cat, Dependents(cat, w))

\* the frame of one __prioritize_view call: the view whose referencing views
\* are its related_views, and those the loop of lines 241-243 has not taken yet
Frame(related_view, related_views) == [related_view |-> related_view, todo |-> related_views]

\* __get_prioritized_views(view_name) is called: lines 246-248 up to the first
\* statement of __prioritize_view's loop
walk_call ==
    /\ pc = "idle"
    /\ frames = <<>>
    /\ budget.calls > 0
    /\ budget' = [budget EXCEPT !.calls = @ - 1]
    /\ \E view_name \in ViewNames :
       \E ref_views \in Perms(get_ref_views(catalog, view_name)) :
          /\ run' = [view |-> view_name, story |-> Range(ref_views), ended |-> "no"]
          /\ recreation_priority' =
                AddPriority(recreation_priority, view_name, IF ref_views # <<>> THEN 1 ELSE 0)
          /\ frames' = <<Frame(view_name, ref_views)>>
          /\ ev' = Event("__get_prioritized_views", view_name, "", 0)
    /\ UNCHANGED <<refresh_log, command, registry, catalog, ledger, views_to_be_created,
                   views_to_be_recreated, views_to_be_deleted, created_views, recreated_views,
                   deleted_views, pc, todo>>

\* a walk that does not enter a view whose call is still running
walk_recurse_unless_running ==
    /\ frames # <<>>
    /\ frames[Len(frames)].todo # <<>>
    /\ Len(frames) < RecursionLimit
    /\ \E related_view \in {Head(frames[Len(frames)].todo)} :
       \E ref_views \in Perms(IF \E i \in DOMAIN frames : frames[i].related_view = related_view
                              THEN {} ELSE get_ref_views(catalog, related_view)) :
          /\ run' = [run EXCEPT !.story = @ \cup Range(ref_views)]
          /\ recreation_priority' =
                AddPriority(recreation_priority, run.view, IF ref_views # <<>> THEN 1 ELSE 0)
          /\ frames' = Append([frames EXCEPT ![Len(frames)].todo = Tail(@)],
                              Frame(related_view, ref_views))
          /\ ev' = Event("__prioritize_view", related_view, "call", Len(frames) + 1)
    /\ UNCHANGED <<refresh_log, command, registry, catalog, ledger, views_to_be_created,
                   views_to_be_recreated, views_to_be_deleted, created_views, recreated_views,
                   deleted_views, pc, todo, budget>>

\* lines 241-243 and 235-239: the loop takes the next related view, reads the
\* views that reference it and calls __prioritize_view with them
walk_recurse ==
    /\ frames # <<>>
    /\ frames[Len(frames)].todo # <<>>
    /\ Len(frames) < RecursionLimit
    /\ \E related_view \in {Head(frames[Len(frames)].todo)} :
       \E ref_views \in Perms(get_ref_views(catalog, related_view)) :
          /\ run' = [run EXCEPT !.story = @ \cup Range(ref_views)]
          /\ recreation_priority' =
                AddPriority(recreation_priority, run.view, IF ref_views # <<>> THEN 1 ELSE 0)
          /\ frames' = Append([frames EXCEPT ![Len(frames)].todo = Tail(@)],
                              Frame(related_view, ref_views))
          /\ ev' = Event("__prioritize_view", related_view, "call", Len(frames) + 1)
    /\ UNCHANGED <<refresh_log, command, registry, catalog, ledger, views_to_be_created,
                   views_to_be_recreated, views_to_be_deleted, created_views, recreated_views,
                   deleted_views, pc, todo, budget>>

\* line 243 at the recursion limit: the interpreter raises RecursionError, which
\* nothing catches, and every frame is left
walk_recursion_error ==
    /\ frames # <<>>
    /\ frames[Len(frames)].todo # <<>>
    /\ Len(frames) = RecursionLimit
    /\ frames' = <<>>
    /\ run' = [run EXCEPT !.ended = "RecursionError"]
    /\ ev' = Event("raise", run.view, "RecursionError", Len(frames))
    /\ UNCHANGED <<refresh_log, command, registry, catalog, ledger, procVars, pc, todo, budget>>

\* the loop of a __prioritize_view call is over: the call returns, and with the
\* first call __get_prioritized_views returns dependencies_story
walk_return ==
    /\ frames # <<>>
    /\ frames[Len(frames)].todo = <<>>
    /\ frames' = SubSeq(frames, 1, Len(frames) - 1)
    /\ run' = [run EXCEPT !.ended = IF Len(frames) = 1 THEN "returned" ELSE @]
    /\ ev' = Event(IF Len(frames) = 1 THEN "return" ELSE "__prioritize_view",
                   frames[Len(frames)].related_view, "return", Len(frames) - 1)
    /\ UNCHANGED <<refresh_log, command, registry, catalog, ledger, procVars, pc, todo, budget>>

WalkInit ==
    /\ registry \in CallRegistries
    /\ catalog \in CyclicCatalogs
    /\ ledger = <<>>
    /\ views_to_be_created = {}
    /\ views_to_be_recreated = {}
    /\ views_to_be_deleted = {}
    /\ created_views = {}
    /\ recreated_views = {}
    /\ deleted_views = {}
    /\ recreation_priority = <<>>
    /\ pc = "idle"
    /\ todo = <<>>
    /\ ev = Event("init", NoView, "", 0)
    /\ run = [view |-> NoView, story |-> {}, ended |-> "no"]
    /\ budget = [calls |-> MaxWalks, deploys |-> 0, marks |-> 0]
    /\ refresh_log = <<>>
    /\ command = NoCommand
    /\ frames = <<>>

\* one step of a running call
WalkStep ==
    \/ walk_recurse
    \/ walk_recursion_error
    \/ walk_return

WalkNext ==
    \/ walk_call
    \/ walk_recurse
    \/ walk_recursion_error
    \/ walk_return

\* the call is synchronous: once it has started it keeps running
WalkSpec == WalkInit /\ [][WalkNext]_vars /\ WF_vars(WalkStep)

\* C27 as stated: the transitive-dependent walk get_prioritized_views(v)
\* terminates if and only if no dependency cycle is reachable from v along
\* dependent edges; when such a cycle exists the recursion never ends.
C27_WalkEndsIffNoCycle ==
    /\ [](run.view # NoView => (run.ended # "no" => ~CycleReachable(catalog, run.view)))
    /\ (run.view # NoView /\ ~CycleReachable(catalog, run.view)) ~> (run.ended # "no")

\* C27, amended: the walk returns if and only if no dependency cycle is
\* reachable from v; when such a cycle exists the recursion goes on until the
\* interpreter's recursion limit and the call ends with RecursionError.
C27_WalkReturnsIffNoCycle ==
    /\ [](run.view # NoView =>
            /\ run.ended = "returned" =>
                 /\ ~CycleReachable(catalog, run.view)
                 /\ run.story = CascadeClosure(catalog, {run.view}) \ {run.view}
            /\ run.ended = "RecursionError" => CycleReachable(catalog, run.view)
            /\ Len(frames) <= RecursionLimit)
    /\ (run.view # NoView) ~> (run.ended \in {"returned", "RecursionError"})

\* a walk over a database with a cycle has ended with RecursionError
C27_Witness ==
    /\ run.ended = "RecursionError"
    /\ CycleReachable(catalog, run.view)
    /\ \E i \in DOMAIN recreation_priority :
          recreation_priority[i].view = run.view /\ recreation_priority[i].priority >= RecursionLimit

(***************************************************************************)
(* recreate_views() called on a new processor, on any database of views,   *)
(* for a project whose models select from one another in any way.          *)
(***************************************************************************)
\* the definitions a model can have: a constant query, a text the database
\* rejects, or a query over one of the other views
RecreateDefs(view) ==
    { [text |-> <<tSelect, tOne>>, args |-> <<>>], [text |-> <<tBang, tOne>>, args |-> <<>>] } \cup
    { [text |-> <<tSelect, other>>, args |-> <<>>] : other \in ViewNames \ {view} }

\* every model is registered with one of its definitions
RecreateRegistries ==
    { r \in [ViewNames -> UNION {RecreateDefs(view) : view \in ViewNames}] :
        \A view \in ViewNames : r[view] \in RecreateDefs(view) }

\* the views of the database cat whose definition in reg selects from other
\* views than the view of the database does: their hash has changed
Redefined(reg, cat) == {view \in DOMAIN cat : Refs(reg[view].text) # cat[view]}

\* a new processor on a database of views created from earlier definitions,
\* after mark_to_be_applied_new_views (lines 50-63) has put the views whose
\* hash has changed into the recreate set: the redefined ones, and any other
\* whose text has changed
RecreateInit ==
    /\ registry \in RecreateRegistries
    /\ catalog \in ViewCatalogs
    /\ ledger = LedgerOf(registry, catalog)
    /\ views_to_be_created = {}
    /\ views_to_be_recreated \in
          {changed \in SUBSET DOMAIN catalog : Redefined(registry, catalog) \subseteq changed}
    /\ views_to_be_deleted = {}
    /\ created_views = {}
    /\ recreated_views = {}
    /\ deleted_views = {}
    /\ recreation_priority = <<>>
    /\ pc = "idle"
    /\ todo = <<>>
    /\ ev = Event("init", NoView, "", 0)
    /\ run = [second |-> FALSE, effects |-> {}, phases |-> <<>>, ended |-> "no",
              answers |-> {}, sweep |-> {}, marked |-> {}, walked |-> <<>>]
    /\ budget = [calls |-> MaxDirectCalls, deploys |-> 0, marks |-> MaxMarks]
    /\ refresh_log = <<>>
    /\ command = NoCommand
    /\ frames = <<>>

\* recreate_views() is called
call_recreate_views ==
    /\ pc = "idle"
    /\ Called
    /\ pc' = "recreate_views"
    /\ ev' = Event("call recreate_views", NoView, "", 0)
    /\ run' = [run EXCEPT !.phases = <<>>, !.ended = "no", !.effects = {}]
    /\ UNCHANGED <<otherVars, registry, catalog, ledger, procVars, todo>>

\* recreate_views() returns (line 103 is its last statement)
recreate_views_return ==
    /\ pc = "delete_views"
    /\ pc' = "idle"
    /\ ev' = Event("return", NoView, "", 0)
    /\ Ended(FALSE)
    /\ UNCHANGED <<otherVars, registry, catalog, ledger, procVars, todo, budget>>

RecreateNext ==
    \/ call_recreate_views
    \/ recreate_views
    \/ recreate_views_step
    \/ recreate_views_raise
    \/ recreate_views_end
    \/ recreate_views_return

RecreateSpec == RecreateInit /\ [][RecreateNext]_vars

(***************************************************************************)
(* C31: the order of recreate_views on a new processor.                    *)
(***************************************************************************)
\* recreate_views has just sorted the views: todo' is the order of its loop
Sorted == pc = "recreate_views" /\ pc' = "recreate_views loop"

\* every view of the order comes before each of its direct and transitive
\* dependents, which are in the order too, and has a greater priority
DependedOnFirst ==
    \A view \in Range(todo') : \A dependent \in ViewDependents(view) :
        /\ dependent \in Range(todo')
        /\ PriorityOf(recreation_priority', view) > PriorityOf(recreation_priority', dependent)
        /\ PositionOf(todo', view) < PositionOf(todo', dependent)

\* the views that the step's DROP ... CASCADE removed with the view of the step
RemovedByCascade == (DOMAIN catalog \ DOMAIN DropInCatalog(catalog, Head(todo), TRUE)) \ {Head(todo)}

\* C31: on an acyclic dependency graph and a priority counter that is empty at
\* the start of the phase, the order used by recreate_views places every view
\* before each of its direct and transitive dependents (its priority is
\* strictly greater than that of any of its dependents), so every view removed
\* by a cascade drop is recreated later in the same phase: it comes later in
\* the order.
C31_CascadeDroppedIsRecreatedLater ==
    /\ [][(Sorted /\ recreation_priority = <<>>) => DependedOnFirst]_vars
    /\ [][(pc = "recreate_views loop" /\ todo # <<>>) =>
            RemovedByCascade \subseteq Range(Tail(todo))]_vars

(***************************************************************************)
(* C32: the order of recreate_views on a processor that has walked the     *)
(* graph before.                                                           *)
(***************************************************************************)
\* C32: the recreate order places every view before each of its dependents
\* also when the same processor has walked the graph before (an earlier
\* get_view_list_sorted_by_dependencies call, an earlier run, or a failed
\* drop): no dependent precedes a view it depends on, whatever the counter
\* held when recreate_views began.
C32_NoDependentPrecedes ==
    [][Sorted =>
        \A view \in Range(todo') : \A dependent \in ViewDependents(view) \cap Range(todo') :
            PositionOf(todo', view) < PositionOf(todo', dependent)]_vars

(***************************************************************************)
(* C33: the views recreate_views works on.                                 *)
(***************************************************************************)
\* C33: recreate_views drops and recreates only views that are in the
\* pending-recreation set or are transitive dependents of a view in it: the
\* list its loop goes through holds no view outside that closure, whatever
\* operations ran on the processor before.
C33_RecreatesOnlyPendingClosure ==
    [][Sorted => Range(todo') \subseteq CascadeClosure(catalog, views_to_be_recreated)]_vars

(***************************************************************************)
(* C34: the state a run of process_materialized_views() leaves.            *)
(***************************************************************************)
\* the ledger records of view that have deleted = False
ActiveOf(view) == {i \in RecordsOf(view) : ~ledger[i].deleted}

\* C34: when process_materialized_views() returns normally, every registered
\* view exists in the database and has exactly one active ledger record whose
\* hash equals the hash of the view's current definition, and the
\* pending-creation, pending-recreation and pending-deletion sets are all
\* empty. The hash is the one the processor computes for the definition, in
\* mark_to_be_applied_new_views or in _create_view.
C34_ReturnLeavesEverythingSynchronized ==
    (ev.op = "return" /\ run.ended = "returned") =>
        /\ \A view \in DOMAIN registry :
              /\ view \in DOMAIN catalog
              /\ Cardinality(ActiveOf(view)) = 1
              /\ \A i \in ActiveOf(view) :
                    ledger[i].hash \in {MarkHash(registry, view), CreateHash(registry, view)}
        /\ views_to_be_created = {}
        /\ views_to_be_recreated = {}
        /\ views_to_be_deleted = {}

(***************************************************************************)
(* C35: the registry lookup of recreate_views.                             *)
(***************************************************************************)
\* C35: every view for which recreate_views attempts the create step is
\* present in the registry, so the lookup of the definition never fails
\* there, including when a dependent of a changed view is an unregistered
\* view that is pending deletion.
C35_RecreatedViewIsRegistered ==
    [][(pc = "recreate_views loop" /\ todo # <<>>) =>
          /\ Head(todo) \in DOMAIN registry
          /\ ev'.outcome # "KeyError"]_vars

(***************************************************************************)
(* _delete_view step by step (processor.py 169-194): one frame per running *)
(* _delete_view call, on databases in which a view can belong to an        *)
(* extension, so that DROP MATERIALIZED VIEW raises InternalError for it   *)
(* with and without CASCADE.                                               *)
(***************************************************************************)
\* the extension of the database; catalog[Extension] holds its member views
Extension == <<"extension">>

\* the databases of views, without an extension or with one that one of the
\* views is a member of
ExtensionCatalogs ==
    ViewCatalogs \cup
    UNION { { cat @@ (Extension :> {v}) : v \in DOMAIN cat } : cat \in ViewCatalogs }

\* the relations of the database and what they reference
Relations(cat) == [object \in DOMAIN cat \ {Extension} |-> cat[object]]

\* what DROP MATERIALIZED VIEW IF EXISTS view_name [CASCADE] answers (line 173):
\* a member of an extension is never dropped, nor anything it depends on
DropAnswer(cat, view_name, cascade) ==
    IF /\ view_name \in DOMAIN cat
       /\ Extension \in DOMAIN cat
       /\ cat[Extension] \cap CascadeClosure(Relations(cat), {view_name}) # {}
    THEN "extension requires it"
    ELSE DropOutcome(Relations(cat), view_name, cascade)

\* the database after a successful DROP
DropWithExtension(cat, view_name, cascade) ==
    LET dropped == DropInCatalog(Relations(cat), view_name, cascade)
    IN  IF Extension \in DOMAIN cat THEN dropped @@ (Extension :> cat[Extension]) ELSE dropped

\* the frame of one _delete_view call
DeleteFrame(view_name, cascade) == [view_name |-> view_name, cascade |-> cascade]

\* the running _delete_view call is at its DROP, which raises InternalError
DropFails ==
    /\ frames # <<>>
    /\ DropAnswer(catalog, frames[Len(frames)].view_name, frames[Len(frames)].cascade) # "dropped"

\* lines 175-185 after a failed DROP: the dependencies found, and whether the
\* view may be dropped with CASCADE
AllowedToDelete(g) == g.story # {} /\ g.story \subseteq views_to_be_deleted

\* _delete_view(view_name, cascade) is called
delete_call ==
    /\ pc = "idle"
    /\ frames = <<>>
    /\ Called
    /\ \E view_name \in ViewNames, cascade \in BOOLEAN :
          /\ frames' = <<DeleteFrame(view_name, cascade)>>
          /\ run' = [view |-> view_name, ended |-> "no", drops |-> 0]
          /\ ev' = Event("_delete_view", view_name, "call", 0)
    /\ UNCHANGED <<refresh_log, command, registry, catalog, ledger, procVars, pc, todo>>

\* lines 173 and 192-193: the DROP succeeds and the call returns True, and
\* with it every call that is waiting for it (line 187-188)
delete_dropped ==
    /\ frames # <<>>
    /\ ~DropFails
    /\ catalog' = DropWithExtension(catalog, frames[Len(frames)].view_name,
                                    frames[Len(frames)].cascade)
    /\ frames' = <<>>
    /\ run' = [run EXCEPT !.ended = "returned", !.drops = @ + 1]
    /\ ev' = Event("return", run.view, "dropped", Len(frames))
    /\ UNCHANGED <<refresh_log, command, registry, ledger, procVars, pc, todo, budget>>

\* lines 174-178 and 189-190: the DROP fails and the error is raised again; it
\* leaves every waiting call, none of which catches it
delete_raise ==
    /\ DropFails
    /\ \E g \in {get_prioritized_views(Relations(catalog), recreation_priority,
                                       frames[Len(frames)].view_name)} :
          /\ ~AllowedToDelete(g)
          /\ recreation_priority' = g.priority
    /\ frames' = <<>>
    /\ run' = [run EXCEPT !.ended = "raised", !.drops = @ + 1]
    /\ ev' = Event("raise", run.view, "InternalError", Len(frames))
    /\ UNCHANGED <<refresh_log, command, registry, catalog, ledger, views_to_be_created,
                   views_to_be_recreated, views_to_be_deleted, created_views, recreated_views,
                   deleted_views, pc, todo, budget>>

\* lines 174-188: the DROP fails, every dependency is pending deletion, and the
\* call calls _delete_view(view_name, cascade=True)
delete_retry ==
    /\ DropFails
    /\ Len(frames) < RecursionLimit
    /\ \E g \in {get_prioritized_views(Relations(catalog), recreation_priority,
                                       frames[Len(frames)].view_name)} :
          /\ AllowedToDelete(g)
          /\ recreation_priority' = g.priority
    /\ frames' = Append(frames, DeleteFrame(frames[Len(frames)].view_name, TRUE))
    /\ run' = [run EXCEPT !.drops = @ + 1]
    /\ ev' = Event("_delete_view", run.view, "retry", Len(frames))
    /\ UNCHANGED <<refresh_log, command, registry, catalog, ledger, views_to_be_created,
                   views_to_be_recreated, views_to_be_deleted, created_views, recreated_views,
                   deleted_views, pc, todo, budget>>

\* line 187 at the recursion limit: the interpreter raises RecursionError, which
\* leaves every call
delete_recursion_error ==
    /\ DropFails
    /\ Len(frames) = RecursionLimit
    /\ \E g \in {get_prioritized_views(Relations(catalog), recreation_priority,
                                       frames[Len(frames)].view_name)} :
          /\ AllowedToDelete(g)
          /\ recreation_priority' = g.priority
    /\ frames' = <<>>
    /\ run' = [run EXCEPT !.ended = "RecursionError", !.drops = @ + 1]
    /\ ev' = Event("raise", run.view, "RecursionError", Len(frames))
    /\ UNCHANGED <<refresh_log, command, registry, catalog, ledger, views_to_be_created,
                   views_to_be_recreated, views_to_be_deleted, created_views, recreated_views,
                   deleted_views, pc, todo, budget>>

\* a new processor whose pending-deletion set add_view_to_be_deleted has filled
DropInit ==
    /\ registry \in CallRegistries
    /\ catalog \in ExtensionCatalogs
    /\ ledger = <<>>
    /\ views_to_be_created = {}
    /\ views_to_be_recreated = {}
    /\ views_to_be_deleted \in SUBSET ViewNames
    /\ created_views = {}
    /\ recreated_views = {}
    /\ deleted_views = {}
    /\ recreation_priority = <<>>
    /\ pc = "idle"
    /\ todo = <<>>
    /\ ev = Event("init", NoView, "", 0)
    /\ run = [view |-> NoView, ended |-> "no", drops |-> 0]
    /\ budget = [calls |-> MaxDirectCalls, deploys |-> 0, marks |-> 0]
    /\ refresh_log = <<>>
    /\ command = NoCommand
    /\ frames = <<>>

DropNext ==
    \/ delete_call
    \/ delete_dropped
    \/ delete_raise
    \/ delete_retry
    \/ delete_recursion_error

DropSpec == DropInit /\ [][DropNext]_vars

(***************************************************************************)
(* C36: how often _delete_view retries.                                    *)
(***************************************************************************)
\* C36: a call of _delete_view retries the drop with CASCADE at most once: no
\* more than one call is waiting for a retry, and if the cascading drop of
\* the retry also fails, the error propagates and the call ends with it
\* instead of retrying again.
C36_RetriesWithCascadeAtMostOnce ==
    /\ [](Len(frames) <= 2)
    /\ [][(DropFails /\ Len(frames) = 2) => (frames' = <<>> /\ run'.ended = "raised")]_vars

(***************************************************************************)
(* C37: delete_views that stops with an error.                             *)
(***************************************************************************)
\* the loop of delete_views ends with the error of _delete_view(Head(todo))
DeleteViewsRaises == pc = "delete_views loop" /\ ev'.op = "raise"

\* C37: when delete_views stops with an error on some view, the views dropped
\* earlier in the same call stay removed from the pending-deletion set, are
\* in the deleted set and have their ledger records marked deleted, while the
\* failing view and every view not yet processed remain in the
\* pending-deletion set with their ledger records unchanged.
C37_ErrorKeepsEarlierDeletions ==
    [][DeleteViewsRaises =>
        /\ ledger' = ledger
        /\ \A view \in run.marked \ Range(todo) :
              /\ view \notin views_to_be_deleted'
              /\ view \in deleted_views'
              /\ \A i \in RecordsOf(view) : ledger'[i].deleted
        /\ \A view \in Range(todo) :
              /\ view \in views_to_be_deleted'
              /\ view \notin deleted_views'
              /\ \A i \in RecordsOf(view) : ~ledger'[i].deleted]_vars

\* delete_views has stopped with an error after it had dropped a view that has
\* a ledger record, and the failing view has a record too
C37_Witness ==
    /\ ev.op = "raise"
    /\ ev.view \in run.marked
    /\ ev.view \in views_to_be_deleted
    /\ RecordsOf(ev.view) # {}
    /\ \E view \in deleted_views : view \in run.marked /\ RecordsOf(view) # {}

====
